---- MODULE Spec2Model ----
(***************************************************************************)
(* Column decoder of the DBD reader (read_columns, ColumnData.C) and the   *)
(* single-file entry point around it (parse_single_file and                *)
(* single_result_to_python, dbd_python.cpp).                               *)
(*                                                                         *)
(* The byte stream is supplied by the environment one read at a time: each *)
(* read of the decoder draws the bytes it gets (or an end of stream) from  *)
(* a small set.  Values are kept as records [cls, v]: cls is "int", "fin", *)
(* "inf" or "nan" and v the integer, the big-endian bytes of a finite      *)
(* float, or the sign of an infinity.                                      *)
(***************************************************************************)
EXTENDS Integers, Sequences, FiniteSets, TLC

(***************************************************************************)
(* Bounds of the model.                                                    *)
(***************************************************************************)
\* tag positions at which the stream goes on, with a 'd' or with a stray byte
MaxRecords == 3
\* bytes that are not 'd' the environment supplies at and after the one stray
\* tag byte of a stream
MaxStray == 2
\* the floor of the initial column capacity (256 in read_columns), scaled down
\* so that a decode of MaxRecords records runs past it and past twice it
MinCapacity == 1
\* the caller's estimate of the bytes left (1024 * 1024 in parse_single_file),
\* scaled down with MinCapacity
NBytes == 0
\* paths a call on files may name
MaxFiles == 2
\* records before the end of a stream that is decoded as a whole
MaxStreamRecords == 2

MaxCalls == 2

MaxBitSensors == 8

MaxStepItems == 3

(***************************************************************************)
(* Program constants.                                                      *)
(***************************************************************************)
CharD == 100
CharX == 88
FILL_INT8 == -127
FILL_INT16 == -32768

\* the result of a read that hit the end of the stream
EOF == <<>>

(***************************************************************************)
(* Values of the typed columns.                                            *)
(***************************************************************************)
IntV(n) == [cls |-> "int", v |-> <<n>>]
NaN == [cls |-> "nan", v |-> <<>>]
Inf(sign) == [cls |-> "inf", v |-> <<sign>>]
Fin(bytes) == [cls |-> "fin", v |-> bytes]

isinf(val) == val.cls = "inf"

\* the fill value a column of a sensor of this size is created and grown with
FillOf(size) ==
    CASE size = 1 -> IntV(FILL_INT8)
      [] size = 2 -> IntV(FILL_INT16)
      [] OTHER -> NaN

\* the value std::vector::resize(n) gives the elements it adds: T()
ZeroOf(size) ==
    CASE size = 1 -> IntV(0)
      [] size = 2 -> IntV(0)
      [] size = 4 -> Fin(<<0, 0, 0, 0>>)
      [] OTHER -> Fin(<<0, 0, 0, 0, 0, 0, 0, 0>>)

(***************************************************************************)
(* KnownBytes readers: the value of size bytes, given in big-endian order  *)
(* (the reader has undone the file's byte order).  Floats are classified   *)
(* as IEEE 754 does: all exponent bits set means infinity or NaN.          *)
(***************************************************************************)
ToInt8(b) == IF b >= 128 THEN b - 256 ELSE b

read8(bs) == IntV(ToInt8(bs[1]))

read16(bs) ==
    LET u == bs[1] * 256 + bs[2]
    IN  IntV(IF u >= 32768 THEN u - 65536 ELSE u)

read32(bs) ==
    LET sign == bs[1] \div 128
        expo == (bs[1] % 128) * 2 + (bs[2] \div 128)
        mantZero == (bs[2] % 128 = 0) /\ bs[3] = 0 /\ bs[4] = 0
    IN  IF expo = 255
        THEN IF mantZero THEN Inf(sign) ELSE NaN
        ELSE Fin(bs)

read64(bs) ==
    LET sign == bs[1] \div 128
        expo == (bs[1] % 128) * 16 + (bs[2] \div 16)
        mantZero == (bs[2] % 16 = 0) /\ \A k \in 3..8 : bs[k] = 0
    IN  IF expo = 2047
        THEN IF mantZero THEN Inf(sign) ELSE NaN
        ELSE Fin(bs)

(***************************************************************************)
(* Sensors: the roster of a file, one entry per available sensor in file   *)
(* order.  A sensor starts kept and criteria; index is its output column.  *)
(***************************************************************************)
NewSensors(roster) ==
    [k \in 1..Len(roster) |->
        [name |-> roster[k].name, size |-> roster[k].size,
         keep |-> TRUE, criteria |-> TRUE, index |-> k - 1]]

\* Sensors::qKeep(names): keep the named sensors, number the kept ones densely
Sensors_qKeep(sensors, names) ==
    [k \in 1..Len(sensors) |->
        LET q == sensors[k].name \in names
        IN  [sensors[k] EXCEPT
               !.keep = q,
               !.index = IF q
                         THEN Cardinality({j \in 1..(k - 1) : sensors[j].name \in names})
                         ELSE -1]]

\* Sensors::qCriteria(names)
Sensors_qCriteria(sensors, names) ==
    [k \in 1..Len(sensors) |->
        [sensors[k] EXCEPT !.criteria = (sensors[k].name \in names)]]

\* variant: to_keep is not applied
ApplyFilters_KeepAll(roster, to_keep, criteria) ==
    IF criteria # {} THEN Sensors_qCriteria(NewSensors(roster), criteria) ELSE NewSensors(roster)

\* parse_single_file: the filters are applied only when names are given
ApplyFilters(roster, to_keep, criteria) ==
    LET s0 == NewSensors(roster)
        s1 == IF to_keep # {} THEN Sensors_qKeep(s0, to_keep) ELSE s0
    IN  IF criteria # {} THEN Sensors_qCriteria(s1, criteria) ELSE s1

(***************************************************************************)
(* read_columns, set-up (before the record loop).                          *)
(***************************************************************************)
nHeaderOf(nSensors) == (nSensors + 3) \div 4

\* outIndex[i]: the output column of sensor i, -1 when it is not kept
outIndex(sensors) ==
    [k \in 1..Len(sensors) |-> IF sensors[k].keep THEN sensors[k].index ELSE -1]

Max(a, b) == IF a >= b THEN a ELSE b

SetMax(S) == CHOOSE m \in S : \A x \in S : x <= m

\* nOut = sensorInfo.size(): one past the largest index of a kept sensor
nOutOf(sensors) ==
    SetMax({0} \cup {sensors[k].index + 1 : k \in {j \in 1..Len(sensors) : sensors[j].keep}})

\* sensorInfo[c]: the last kept sensor whose index is c (a default entry if none)
sensorInfo(sensors) ==
    [c \in 1..nOutOf(sensors) |->
        LET hits == {k \in 1..Len(sensors) : sensors[k].keep /\ sensors[k].index = c - 1}
        IN  IF hits = {}
            THEN [name |-> "", size |-> 0]
            ELSE [name |-> sensors[SetMax(hits)].name, size |-> sensors[SetMax(hits)].size]]

initCapacity(nSensors) ==
    Max(MinCapacity, (2 * NBytes) \div (nHeaderOf(nSensors) + 1) + 1)

InitColumns(sensors) ==
    [c \in 1..nOutOf(sensors) |->
        [r \in 1..initCapacity(Len(sensors)) |-> FillOf(sensorInfo(sensors)[c].size)]]

\* variant: the previous values start at zero
InitPrevValues_Zero(sensors) ==
    [c \in 1..nOutOf(sensors) |-> ZeroOf(sensorInfo(sensors)[c].size)]

InitPrevValues(sensors) ==
    [c \in 1..nOutOf(sensors) |-> FillOf(sensorInfo(sensors)[c].size)]

(***************************************************************************)
(* read_columns, the record loop.  The decoder is the record d:            *)
(*   pc          where the loop stands: "tag", "search", "header",         *)
(*               "sensor", "commit", "trim", "done" or "crashed"           *)
(*   pos         bytes consumed from the stream                            *)
(*   tag, c      the byte read at the tag position and by the search (-1   *)
(*               before the first read and when the read failed)           *)
(*   bits        the header bits of the record, as int8_t                  *)
(*   i           the sensor the loop stands at (1-based)                   *)
(*   qKeep, nRows, columns, prevValues   as in the source                  *)
(***************************************************************************)

\* (bits[i >> 2] >> (6 - ((i & 3) << 1))) & 0x03, for the 1-based sensor k
\* x >> n on a signed value: the floor of x / 2^n
ShiftRight(x, n) ==
    IF x >= 0 THEN x \div (2 ^ n) ELSE -((-x + (2 ^ n) - 1) \div (2 ^ n))

\* variant: the first sensor of a byte takes its two low bits
Code_LowBitsFirst(bits, k) ==
    LET i == k - 1
        offIndex == i \div 4
        offBits == (i % 4) * 2
    IN  ShiftRight(bits[offIndex + 1], offBits) % 4

\* offIndex = i >> 2; offBits = 6 - ((i & 0x3) << 1);
\* code = (bits[offIndex] >> offBits) & 0x03, bits being int8_t
Code(bits, k) ==
    LET i == k - 1
        offIndex == i \div 4
        offBits == 6 - ((i % 4) * 2)
    IN  ShiftRight(bits[offIndex + 1], offBits) % 4

\* if (nRows >= vec.size()) vec.resize(vec.size() * 2, fill)
Grow(col, nRows, fill) ==
    IF nRows >= Len(col) THEN col \o [r \in 1..Len(col) |-> fill] ELSE col

\* the write vec[nRows] = val lands inside the vector
InBounds(col, nRows, fill) == nRows < Len(Grow(col, nRows, fill))

\* the growth followed by vec[nRows] = val; a write past the end of the vector
\* leaves the vector's elements as they are
WriteCell(col, nRows, val, fill) ==
    LET g == Grow(col, nRows, fill)
    IN  IF nRows < Len(g) THEN [g EXCEPT ![nRows + 1] = val] ELSE g

\* kb.read8 / read16 / read32 / read64 by sensor size
ReadValue(size, bs) ==
    CASE size = 1 -> read8(bs)
      [] size = 2 -> read16(bs)
      [] size = 4 -> read32(bs)
      [] OTHER -> read64(bs)

\* variant: an infinite value is stored as it was read
Sanitize_None(val) == val

\* if (std::isinf(val)) val = NAN
Sanitize(val) == IF isinf(val) THEN NaN ELSE val

\* variant: an 'X' at a tag position is handled like any byte that is not 'd'
TagStep_XIsStray(d, b) ==
    IF b = EOF THEN [d EXCEPT !.pc = "trim", !.tag = -1]
    ELSE IF b[1] # CharD THEN [d EXCEPT !.pc = "search", !.tag = b[1], !.pos = @ + 1]
    ELSE [d EXCEPT !.pc = "header", !.tag = b[1], !.pos = @ + 1]

\* the tag byte of the record loop
TagStep(d, b) ==
    IF b = EOF THEN [d EXCEPT !.pc = "trim", !.tag = -1]
    ELSE IF b[1] = CharX THEN [d EXCEPT !.pc = "trim", !.tag = b[1], !.pos = @ + 1]
    ELSE IF b[1] # CharD THEN [d EXCEPT !.pc = "search", !.tag = b[1], !.pos = @ + 1]
    ELSE [d EXCEPT !.pc = "header", !.tag = b[1], !.pos = @ + 1]

\* variant: an 'X' ends the forward search
SearchStep_StopsAtX(d, repair, b) ==
    IF b = EOF \/ b[1] = CharX THEN [d EXCEPT !.pc = "trim", !.c = IF b = EOF THEN -1 ELSE b[1]]
    ELSE IF b[1] = CharD
         THEN [d EXCEPT !.c = b[1], !.pos = @ + 1,
                        !.pc = IF repair THEN "header" ELSE "trim"]
         ELSE [d EXCEPT !.c = b[1], !.pos = @ + 1]

\* variant: the search resumes at the next 'd' without repair as well
SearchStep_AlwaysResumes(d, repair, b) ==
    IF b = EOF THEN [d EXCEPT !.pc = "trim", !.c = -1]
    ELSE IF b[1] = CharD
         THEN [d EXCEPT !.c = b[1], !.pos = @ + 1, !.pc = "header"]
         ELSE [d EXCEPT !.c = b[1], !.pos = @ + 1]

\* one byte of the forward search for the next 'd'
SearchStep(d, repair, b) ==
    IF b = EOF THEN [d EXCEPT !.pc = "trim", !.c = -1]
    ELSE IF b[1] = CharD
         THEN [d EXCEPT !.c = b[1], !.pos = @ + 1,
                        !.pc = IF repair THEN "header" ELSE "trim"]
         ELSE [d EXCEPT !.c = b[1], !.pos = @ + 1]

\* the header bits of a record
HeaderStep(d, sensors, bs) ==
    IF bs = EOF THEN [d EXCEPT !.pc = "trim"]
    ELSE [d EXCEPT !.bits = [k \in 1..Len(bs) |-> ToInt8(bs[k])],
                   !.pos = @ + Len(bs),
                   !.qKeep = FALSE,
                   !.i = 1,
                   !.pc = IF Len(sensors) = 0 THEN "commit" ELSE "sensor"]

\* variant: the criteria of a sensor that is not kept does not count
KeepFlag_KeptOnly(qKeep, sensor, oi) == qKeep \/ (sensor.criteria /\ oi >= 0)

\* qKeep |= sensor.qCriteria()
KeepFlag(qKeep, sensor, oi) == qKeep \/ sensor.criteria

\* variant: the value of a sensor that is not kept is left in the stream
Consume_KeptOnly(pos, sensor, oi) == IF oi >= 0 THEN pos + sensor.size ELSE pos

\* the stream position after a code 2 value of the sensor has been read
Consume(pos, sensor, oi) == pos + sensor.size

\* catch (const std::exception&): the loop is left, the rows committed stay
OnReadError(d) == [d EXCEPT !.pc = "trim"]

\* the loop body for sensor d.i; bs are the bytes a code 2 reads (EOF when the
\* stream ends inside the value), ub the outcome of a write past the vector
SensorStep(d, sensors, bs, ub) ==
    LET sensor == sensors[d.i]
        code == Code(d.bits, d.i)
        oi == outIndex(sensors)[d.i]
        c == oi + 1
        fill == FillOf(sensor.size)
        next == IF d.i = Len(sensors) THEN "commit" ELSE "sensor"
        \* e: the decoder after the read, val: the value for the cell
        Put(e, val, setPrev) ==
            IF oi < 0
            THEN [e EXCEPT !.qKeep = KeepFlag(@, sensor, oi), !.i = @ + 1, !.pc = next]
            ELSE IF ~InBounds(e.columns[c], e.nRows, fill) /\ ub = "crash"
            THEN [e EXCEPT !.pc = "crashed"]
            ELSE [e EXCEPT !.qKeep = KeepFlag(@, sensor, oi),
                           !.columns[c] = WriteCell(@, e.nRows, val, fill),
                           !.prevValues[c] = IF setPrev THEN val ELSE @,
                           !.i = @ + 1,
                           !.pc = next]
    IN  IF code = 1 THEN
            Put(d, IF oi >= 0 THEN d.prevValues[c] ELSE NaN, FALSE)
        ELSE IF code = 2 THEN
            IF sensor.size \notin {1, 2, 4, 8} \/ bs = EOF
            THEN OnReadError(d)
            ELSE LET raw == ReadValue(sensor.size, bs)
                     val == IF sensor.size \in {4, 8} THEN Sanitize(raw) ELSE raw
                 IN  Put([d EXCEPT !.pos = Consume(@, sensor, oi)], val, TRUE)
        ELSE [d EXCEPT !.i = @ + 1, !.pc = next]

\* variant: every record decoded in full is committed
CommitStep_Always(d) == [d EXCEPT !.nRows = @ + 1, !.pc = "tag"]

\* if (qKeep) ++nRows
CommitStep(d) ==
    [d EXCEPT !.nRows = IF d.qKeep THEN @ + 1 ELSE @, !.pc = "tag"]

\* vec.resize(nRows)
Trim(col, nRows, size) ==
    IF nRows <= Len(col)
    THEN SubSeq(col, 1, nRows)
    ELSE col \o [r \in 1..(nRows - Len(col)) |-> ZeroOf(size)]

TrimAll(columns, nRows, sensors) ==
    [c \in 1..Len(columns) |-> Trim(columns[c], nRows, sensorInfo(sensors)[c].size)]

TrimStep(d, sensors) ==
    [d EXCEPT !.columns = TrimAll(@, d.nRows, sensors), !.pc = "done"]

\* the decoder when the record loop is entered
NewDecoder(sensors) ==
    [pc |-> "tag", pos |-> 0, tag |-> -1, c |-> -1, bits |-> <<>>, i |-> 1, qKeep |-> FALSE,
     nRows |-> 0,
     columns |-> InitColumns(sensors),
     prevValues |-> InitPrevValues(sensors)]

(***************************************************************************)
(* read_columns on a whole stream: the bytes of the data section after the *)
(* known-bytes block.  A read of n bytes at the end of the stream fails.   *)
(***************************************************************************)
\* is.read(buf, n) at position pos
ReadAt(stream, pos, n) ==
    IF pos + n <= Len(stream) THEN SubSeq(stream, pos + 1, pos + n) ELSE EOF

\* the next step of the record loop; ub is the outcome of a write past a vector
DecoderStep(d, sensors, stream, repair, ub) ==
    CASE d.pc = "tag" -> TagStep(d, ReadAt(stream, d.pos, 1))
      [] d.pc = "search" -> SearchStep(d, repair, ReadAt(stream, d.pos, 1))
      [] d.pc = "header" -> HeaderStep(d, sensors, ReadAt(stream, d.pos, nHeaderOf(Len(sensors))))
      [] d.pc = "sensor" ->
            SensorStep(d, sensors,
                       IF Code(d.bits, d.i) = 2 /\ sensors[d.i].size \in {1, 2, 4, 8}
                       THEN ReadAt(stream, d.pos, sensors[d.i].size)
                       ELSE EOF,
                       ub)
      [] d.pc = "commit" -> CommitStep(d)
      [] d.pc = "trim" -> TrimStep(d, sensors)
      [] OTHER -> d

RECURSIVE RunColumns(_, _, _, _, _)
RunColumns(d, sensors, stream, repair, ub) ==
    IF d.pc \in {"done", "crashed"} THEN d
    ELSE RunColumns(DecoderStep(d, sensors, stream, repair, ub), sensors, stream, repair, ub)

\* ColumnDataResult: {columns, sensorInfo, nRows}; crashed when a write past a
\* vector ended the process
read_columns(sensors, stream, repair, ub) ==
    LET d == RunColumns(NewDecoder(sensors), sensors, stream, repair, ub)
    IN  [crashed |-> d.pc = "crashed",
         columns |-> d.columns,
         sensor_info |-> sensorInfo(sensors),
         n_records |-> d.nRows]

(***************************************************************************)
(* Files.  A file is the record                                            *)
(*   opens     DecompressTWR opens the path                                *)
(*   header    the header is not empty                                     *)
(*   mission   mission_name of the header                                  *)
(*   factored  the sensor list is not inline but in the cache              *)
(*   cache     "hit" when the cache directory holds the sensor list        *)
(*   kb        the known-bytes block is valid                              *)
(*   roster    the available sensors, by name and size, in file order      *)
(*   records   the records of the data section: codes and value bytes      *)
(*   stream    the bytes of the data section after the known bytes         *)
(* A path is the rank of its name in lexicographic order.                  *)
(***************************************************************************)
\* the header bits of up to 4 sensors
PackCodes(codes) ==
    LET Term(k) == IF k <= Len(codes) THEN codes[k] * (2 ^ (6 - 2 * (k - 1))) ELSE 0
    IN  Term(1) + Term(2) + Term(3) + Term(4)

RECURSIVE Flatten(_)
Flatten(seqs) == IF seqs = <<>> THEN <<>> ELSE Head(seqs) \o Flatten(Tail(seqs))

\* the bytes of one record: 'd', the header bits, the values of the code 2 sensors
EncodeRecord(rec) == <<CharD>> \o <<PackCodes(rec.codes)>> \o Flatten(rec.vals)

\* the data section: the records, then the bytes at its end
EncodeStream(records, end) ==
    Flatten([j \in 1..Len(records) |-> EncodeRecord(records[j])]) \o end

\* variant: every sensor line gives an entry, available or not
Sensors_fromLines_All(lines) ==
    [k \in 1..Len(lines) |-> [name |-> lines[k].name, size |-> lines[k].size]]

\* const Sensor sensor(line); if (sensor.qAvailable()) mSensors.push_back(sensor)
Sensors_fromLines(lines) ==
    LET avail == SelectSeq(lines, LAMBDA l : l.flag = "T")
    IN  [k \in 1..Len(avail) |-> [name |-> avail[k].name, size |-> avail[k].size]]

\* the sensor lines of a list in which every sensor is available
LinesOf(roster) ==
    [k \in 1..Len(roster) |-> [flag |-> "T", name |-> roster[k].name, size |-> roster[k].size]]

\* Header::nSensors(): the number of sensor lines of the file
Header_nSensors(file) == Len(file.lines)

\* the lines Sensors(is, hdr) reads from the stream in pass 1: the inline
\* lines of an unfactored file, none when the list comes from the cache
Pass1End(file) == IF file.factored THEN 0 ELSE Header_nSensors(file)

\* the lines between the header and the known-bytes block
KnownBytesAt(file) == IF file.factored THEN 0 ELSE Len(file.lines)

\* the sensor list of a file as Sensors(is, hdr) and Sensors::load give it:
\* inline, or from the cache of a factored file; empty when there is none
RosterOf(file, cache_dir) ==
    IF ~file.factored THEN Sensors_fromLines(file.lines)
    ELSE IF cache_dir # "" /\ file.cache = "hit" THEN Sensors_fromLines(file.lines)
    ELSE <<>>

\* Header::qProcessMission(skip, keep)
qProcessMission(mission, skipSet, keepSet) ==
    mission \notin skipSet /\ (keepSet = {} \/ mission \in keepSet)

\* Header::addMission(m, set)
addMission(m, set) == set \cup {m}

RECURSIVE addMissions(_, _)
addMissions(names, set) ==
    IF names = <<>> THEN set ELSE addMissions(Tail(names), addMission(Head(names), set))

\* variant: the two mission lists are taken for each other
MissionSets_Swapped(skip_missions, keep_missions) ==
    [skipSet |-> addMissions(keep_missions, {}), keepSet |-> addMissions(skip_missions, {})]

\* skipSet and keepSet of the three entry points that filter by mission
MissionSets(skip_missions, keep_missions) ==
    [skipSet |-> addMissions(skip_missions, {}), keepSet |-> addMissions(keep_missions, {})]

\* variant: the list is processed in the caller's order
SortFiles_None(filenames) == filenames

\* std::sort(sorted_files.begin(), sorted_files.end())
SortFiles(filenames) == SortSeq(filenames, LAMBDA x, y : x < y)

(***************************************************************************)
(* SensorsMap: the rosters inserted in pass 1, in insertion order, one per *)
(* sensor list; the union roster lists every sensor name once.             *)
(***************************************************************************)
\* SensorsMap::insert: a roster already in the map is shared
SensorsMap_insert(smap, roster) ==
    IF \E k \in 1..Len(smap) : smap[k] = roster THEN smap ELSE Append(smap, roster)

RECURSIVE UnionRoster(_)
UnionRoster(entries) ==
    IF entries = <<>> THEN <<>>
    ELSE LET before == UnionRoster(SubSeq(entries, 1, Len(entries) - 1))
             e == entries[Len(entries)]
         IN  IF \E k \in 1..Len(before) : before[k].name = e.name
             THEN before ELSE Append(before, e)

\* smap.qKeep, smap.qCriteria, smap.setUpForData, smap.allSensors
SensorsMap_allSensors(smap, to_keep, criteria) ==
    ApplyFilters(UnionRoster(Flatten(smap)), to_keep, criteria)

\* smap.find(hdr): the roster of the file, each sensor with the keep and
\* criteria flags and the output index of the union sensor of its name
SensorsMap_find(allSensors, roster) ==
    [k \in 1..Len(roster) |->
        LET u == allSensors[CHOOSE j \in 1..Len(allSensors) : allSensors[j].name = roster[k].name]
        IN  [name |-> roster[k].name, size |-> roster[k].size,
             keep |-> u.keep, criteria |-> u.criteria,
             index |-> IF u.keep THEN u.index ELSE -1]]

\* Sensors::nToStore
nToStore(sensors) == Cardinality({k \in 1..Len(sensors) : sensors[k].keep})

(***************************************************************************)
(* parse_multiple_files, pass 1.  st holds smap, valid_files and scanned,  *)
(* the files whose roster pass 1 went on to insert.                        *)
(***************************************************************************)
Pass1File(st, fn, fs, cache_dir, ms) ==
    LET file == fs[fn]
    IN  IF ~file.opens THEN st
        ELSE IF ~file.header THEN st
        ELSE IF ~qProcessMission(file.mission, ms.skipSet, ms.keepSet) THEN st
        ELSE IF RosterOf(file, cache_dir) = <<>>
             \* smap.insert throws: catch (const std::exception&) { continue; }
             THEN [st EXCEPT !.scanned = Append(@, fn)]
        ELSE [st EXCEPT !.scanned = Append(@, fn),
                        !.smap = SensorsMap_insert(@, RosterOf(file, cache_dir)),
                        !.valid_files = Append(@, fn)]

RECURSIVE Pass1(_, _, _, _, _)
Pass1(st, todo, fs, cache_dir, ms) ==
    IF todo = <<>> THEN st
    ELSE Pass1(Pass1File(st, Head(todo), fs, cache_dir, ms), Tail(todo), fs, cache_dir, ms)

(***************************************************************************)
(* parse_multiple_files, pass 2.  st holds allData, totalRecords and       *)
(* crashed; an entry of allData is the result of read_columns, with the    *)
(* path it came from.                                                      *)
(***************************************************************************)
\* variant: the first row of every file is left out of the count
Pass2Count_EveryFile(n, skip_first_record, noData) ==
    IF skip_first_record /\ n > 0 THEN n - 1 ELSE n

\* if (skip_first_record && !allData.empty() && n > 0) n -= 1
Pass2Count(n, skip_first_record, noData) ==
    IF skip_first_record /\ ~noData /\ n > 0 THEN n - 1 ELSE n

\* if (!hdr.qFactored()) for (int i = hdr.nSensors(); i > 0; --i) getline(is, line);
\* src/csrc/dbd_python.cpp goes from smap.find(hdr) straight to KnownBytes kb(is)
Pass2Skip(build, file) ==
    IF build = "csrc" THEN 0
    ELSE IF ~file.factored THEN Header_nSensors(file) ELSE 0

Pass2File(st, fn, fs, allSensors, skip_first_record, repair, build, ub) ==
    LET file == fs[fn]
        fileSensors == SensorsMap_find(allSensors, Sensors_fromLines(file.lines))
        result == read_columns(fileSensors, file.stream, repair, ub)
        at == Pass2Skip(build, file)
        probed == [st EXCEPT !.probes = Append(@, [path |-> fn, at |-> at])]
    IN  IF st.crashed THEN st
        ELSE IF ~file.opens THEN st
        ELSE IF ~file.header THEN st
        \* KnownBytes kb(is) throws: catch (const std::exception&) { continue; }
        ELSE IF ~file.kb \/ at # KnownBytesAt(file) THEN probed
        ELSE IF result.crashed THEN [probed EXCEPT !.crashed = TRUE]
        ELSE [probed EXCEPT
                !.totalRecords = @ + Pass2Count(result.n_records, skip_first_record,
                                                st.allData = <<>>),
                !.allData = Append(@, [path |-> fn,
                                       columns |-> result.columns,
                                       sensor_info |-> result.sensor_info,
                                       n_records |-> result.n_records])]

RECURSIVE Pass2(_, _, _, _, _, _, _, _)
Pass2(st, todo, fs, allSensors, skip_first_record, repair, build, ub) ==
    IF todo = <<>> THEN st
    ELSE Pass2(Pass2File(st, Head(todo), fs, allSensors, skip_first_record, repair, build, ub),
               Tail(todo), fs, allSensors, skip_first_record, repair, build, ub)

(***************************************************************************)
(* parse_multiple_files, the union columns and the copy into them.         *)
(***************************************************************************)
\* unionInfo[idx] = {name, units, size} of the kept sensor with index idx
UnionInfo(allSensors) ==
    [c \in 1..nToStore(allSensors) |->
        LET hits == {k \in 1..Len(allSensors) :
                        allSensors[k].keep /\ allSensors[k].index = c - 1}
        IN  IF hits = {}
            THEN [name |-> "", size |-> 0]
            ELSE [name |-> allSensors[SetMax(hits)].name, size |-> allSensors[SetMax(hits)].size]]

\* The value the union column of a sensor of this size is allocated with.
\* The repository holds two revisions of the binding: csrc/dbd_python.cpp
\* allocates the integer columns with 0, the later revision with FILL_INT8
\* and FILL_INT16.
UnionFill(build, size) ==
    CASE size = 1 -> IntV(IF build = "csrc" THEN 0 ELSE FILL_INT8)
      [] size = 2 -> IntV(IF build = "csrc" THEN 0 ELSE FILL_INT16)
      [] OTHER -> NaN

AllocUnion(build, unionInfo, totalRecords) ==
    [c \in 1..Len(unionInfo) |->
        [r \in 1..totalRecords |-> UnionFill(build, unionInfo[c].size)]]

\* unionNameIndex.find(name): the 1-based union column, 0 when there is none
unionNameIndex(unionInfo, name) ==
    LET hits == {c \in 1..Len(unionInfo) : unionInfo[c].name = name}
    IN  IF hits = {} THEN 0 ELSE SetMax(hits)

\* start: 1 when skip_first_record && fi > 0 && n > 0, for the 0-based fi
MergeStart(skip_first_record, fi, n) ==
    IF skip_first_record /\ fi > 0 /\ n > 0 THEN 1 ELSE 0

\* the element type of a column of a sensor of this size
VariantOf(size) ==
    CASE size = 1 -> "int8" [] size = 2 -> "int16" [] size = 4 -> "float" [] OTHER -> "double"

\* the copy of one file; st holds columns, offset, raised and ranges, the row
\* range each file was given
MergeFile(st, fi, fd, unionInfo, skip_first_record) ==
    LET start == MergeStart(skip_first_record, fi, fd.n_records)
        n == fd.n_records - start
        Target(ci) == unionNameIndex(unionInfo, fd.sensor_info[ci].name)
        found == {ci \in 1..Len(fd.columns) : Target(ci) > 0}
        \* std::get<std::vector<T>> on a column of another type throws
        mismatch == \E ci \in found :
                        VariantOf(fd.sensor_info[ci].size) # VariantOf(unionInfo[Target(ci)].size)
        Source(u) == CHOOSE ci \in found : Target(ci) = u
    IN  IF st.raised \/ n = 0 THEN st
        ELSE IF mismatch THEN [st EXCEPT !.raised = TRUE]
        ELSE [st EXCEPT
                !.columns = [u \in 1..Len(@) |->
                               IF \E ci \in found : Target(ci) = u
                               THEN [r \in 1..Len(@[u]) |->
                                        IF r > st.offset /\ r <= st.offset + n
                                        THEN fd.columns[Source(u)][start + r - st.offset]
                                        ELSE @[u][r]]
                               ELSE @[u]],
                !.offset = @ + n,
                !.ranges = Append(@, [path |-> fd.path, first |-> st.offset + 1,
                                      last |-> st.offset + n, start |-> start])]

RECURSIVE Merge(_, _, _, _, _)
Merge(st, fi, allData, unionInfo, skip_first_record) ==
    IF fi >= Len(allData) THEN st
    ELSE Merge(MergeFile(st, fi, allData[fi + 1], unionInfo, skip_first_record),
               fi + 1, allData, unionInfo, skip_first_record)

(***************************************************************************)
(* parse_single_file after read_columns, and single_result_to_python.      *)
(***************************************************************************)
\* size_t start = 0; n_records = result.n_records; the skip-first adjustment
ParseSingleReturn(d, skip_first_record) ==
    LET skip == skip_first_record /\ d.nRows > 0
    IN  [pc |-> "parsed",
         skip_first_record |-> skip_first_record,
         start |-> IF skip THEN 1 ELSE 0,
         n_records |-> IF skip THEN d.nRows - 1 ELSE d.nRows,
         columns |-> d.columns]

\* full_arr[start:]
Slice(col, start) == SubSeq(col, start + 1, Len(col))

\* each column is sliced from start when start > 0 and n_records > 0
single_result_to_python(r) ==
    [r EXCEPT !.pc = "returned",
              !.columns = [c \in 1..Len(r.columns) |->
                              IF r.start > 0 /\ r.n_records > 0
                              THEN Slice(r.columns[c], r.start)
                              ELSE r.columns[c]]]

(***************************************************************************)
(* The entry points on files.  A call is the record a of its arguments:    *)
(* fn, filenames, cache_dir, to_keep, criteria, skip_missions,             *)
(* keep_missions, skip_first_record, repair.  Its progress is the record   *)
(* r: pc is "called", "pass2", "merge", "returned", "raised" (an exception *)
(* reached the caller) or "crashed".                                       *)
(***************************************************************************)
NoResult == [columns |-> <<>>, sensor_info |-> <<>>, n_records |-> 0, n_files |-> 0,
             headers |-> <<>>]

NewRun ==
    [pc |-> "called", sorted_files |-> <<>>, valid_files |-> <<>>, scanned |-> <<>>,
     smap |-> <<>>, allSensors |-> <<>>, allData |-> <<>>, totalRecords |-> 0,
     probes |-> <<>>, ranges |-> <<>>, result |-> NoResult]

\* parse_multiple_files up to setUpForData
ManyPass1(r, a, fs) ==
    IF a.filenames = <<>> THEN [r EXCEPT !.pc = "returned"]
    ELSE LET sorted == SortFiles(a.filenames)
             st == Pass1([smap |-> <<>>, valid_files |-> <<>>, scanned |-> <<>>],
                         sorted, fs, a.cache_dir,
                         MissionSets(a.skip_missions, a.keep_missions))
         IN  IF st.valid_files = <<>>
             THEN [r EXCEPT !.pc = "returned", !.sorted_files = sorted,
                            !.scanned = st.scanned]
             ELSE [r EXCEPT !.pc = "pass2",
                            !.sorted_files = sorted,
                            !.valid_files = st.valid_files,
                            !.scanned = st.scanned,
                            !.smap = st.smap,
                            !.allSensors = SensorsMap_allSensors(st.smap, a.to_keep, a.criteria)]

ManyPass2(r, a, fs, ub) ==
    IF r.pc # "pass2" THEN r
    ELSE LET st == Pass2([allData |-> <<>>, totalRecords |-> 0, crashed |-> FALSE,
                          probes |-> <<>>],
                         r.valid_files, fs, r.allSensors, a.skip_first_record, a.repair,
                         a.build, ub)
         IN  IF st.crashed THEN [r EXCEPT !.pc = "crashed", !.probes = st.probes]
             ELSE [r EXCEPT !.pc = "merge", !.allData = st.allData,
                            !.totalRecords = st.totalRecords, !.probes = st.probes]

\* variant: n_files counts the files pass 2 decoded
ManyMerge_CountsDecoded(r, a) ==
    IF r.pc # "merge" THEN r
    ELSE LET unionInfo == UnionInfo(r.allSensors)
             st == Merge([columns |-> AllocUnion(a.build, unionInfo, r.totalRecords), offset |-> 0,
                          raised |-> FALSE, ranges |-> <<>>],
                         0, r.allData, unionInfo, a.skip_first_record)
         IN  IF st.raised THEN [r EXCEPT !.pc = "raised"]
             ELSE [r EXCEPT !.pc = "returned",
                            !.ranges = st.ranges,
                            !.result = [columns |-> st.columns,
                                        sensor_info |-> unionInfo,
                                        n_records |-> r.totalRecords,
                                        n_files |-> Len(r.allData),
                                        headers |-> <<>>]]

\* the copy into the union columns and the return value
ManyMerge(r, a) ==
    IF r.pc # "merge" THEN r
    ELSE LET unionInfo == UnionInfo(r.allSensors)
             st == Merge([columns |-> AllocUnion(a.build, unionInfo, r.totalRecords), offset |-> 0,
                          raised |-> FALSE, ranges |-> <<>>],
                         0, r.allData, unionInfo, a.skip_first_record)
         IN  IF st.raised THEN [r EXCEPT !.pc = "raised"]
             ELSE [r EXCEPT !.pc = "returned",
                            !.ranges = st.ranges,
                            !.result = [columns |-> st.columns,
                                        sensor_info |-> unionInfo,
                                        n_records |-> r.totalRecords,
                                        n_files |-> Len(r.valid_files),
                                        headers |-> <<>>]]

parse_multiple_files(a, fs, ub) == ManyMerge(ManyPass2(ManyPass1(NewRun, a, fs), a, fs, ub), a)

\* variant: a file without a usable header or sensor list gives an empty result
SingleFailure_Skips(file, cache_dir) == ~file.opens

\* parse_single_file: the conditions under which it throws before decoding
SingleFailure(file, cache_dir) ==
    \/ ~file.opens
    \/ ~file.header
    \/ RosterOf(file, cache_dir) = <<>>

\* read_dbd_file: parse_single_file, then single_result_to_python
read_dbd_file(r, a, fs, ub) ==
    LET file == fs[a.filenames[1]]
        roster == IF file.header THEN RosterOf(file, a.cache_dir) ELSE <<>>
        sensors == ApplyFilters(roster, a.to_keep, a.criteria)
        res == read_columns(sensors, file.stream, a.repair, ub)
        py == single_result_to_python(
                  ParseSingleReturn([nRows |-> res.n_records, columns |-> res.columns],
                                    a.skip_first_record))
    IN  IF SingleFailure(file, a.cache_dir) THEN [r EXCEPT !.pc = "raised"]
        \* KnownBytes kb(is) throws
        ELSE IF ~file.kb THEN [r EXCEPT !.pc = "raised"]
        ELSE IF res.crashed THEN [r EXCEPT !.pc = "crashed"]
        ELSE [r EXCEPT !.pc = "returned",
                       !.result = [columns |-> py.columns,
                                   sensor_info |-> res.sensor_info,
                                   n_records |-> py.n_records,
                                   n_files |-> 0,
                                   headers |-> <<>>]]

\* scan_sensor_list
scan_sensor_list(r, a, fs) ==
    IF a.filenames = <<>> THEN [r EXCEPT !.pc = "returned"]
    ELSE LET sorted == SortFiles(a.filenames)
             st == Pass1([smap |-> <<>>, valid_files |-> <<>>, scanned |-> <<>>],
                         sorted, fs, a.cache_dir,
                         MissionSets(a.skip_missions, a.keep_missions))
             all == UnionRoster(Flatten(st.smap))
         IN  [r EXCEPT !.pc = "returned",
                       !.sorted_files = sorted,
                       !.valid_files = st.valid_files,
                       !.scanned = st.scanned,
                       !.smap = st.smap,
                       !.result = IF st.valid_files = <<>> THEN NoResult
                                  ELSE [NoResult EXCEPT !.sensor_info = all,
                                                        !.n_files = Len(st.valid_files)]]

RECURSIVE HeaderScan(_, _, _, _)
HeaderScan(headers, todo, fs, ms) ==
    IF todo = <<>> THEN headers
    ELSE LET fn == Head(todo)
             file == fs[fn]
             keeps == file.opens /\ file.header
                        /\ qProcessMission(file.mission, ms.skipSet, ms.keepSet)
         IN  HeaderScan(IF keeps
                        THEN Append(headers, [filename |-> fn, mission_name |-> file.mission])
                        ELSE headers,
                        Tail(todo), fs, ms)

\* scan_file_headers
scan_file_headers(r, a, fs) ==
    IF a.filenames = <<>> THEN [r EXCEPT !.pc = "returned"]
    ELSE LET sorted == SortFiles(a.filenames)
         IN  [r EXCEPT !.pc = "returned",
                       !.sorted_files = sorted,
                       !.result = [NoResult EXCEPT !.headers =
                                     HeaderScan(<<>>, sorted, fs,
                                                MissionSets(a.skip_missions, a.keep_missions))]]

(***************************************************************************)
(* The inputs the environment draws from.                                  *)
(***************************************************************************)
\* rosters of available sensors, by name and size in bytes
Rosters ==
    { <<[name |-> "a", size |-> 1], [name |-> "b", size |-> 4]>>,
      <<[name |-> "a", size |-> 2]>>,
      <<[name |-> "a", size |-> 4]>>,
      <<[name |-> "a", size |-> 8]>> }

\* a roster of one sensor is decoded for one record more than the others
RecordLimit(n) == IF n = 1 THEN MaxRecords + 1 ELSE MaxRecords

NamesOf(roster) == {roster[k].name : k \in 1..Len(roster)}

\* to_keep: no names (the default, all sensors) or one sensor of the roster
KeepSets(roster) == {{}} \cup {{n} : n \in NamesOf(roster)}

\* criteria: no names (the default, all sensors) or the first sensor of the roster
CriteriaSets(roster) == {{}, {roster[1].name}}

\* a byte that is neither 'd' nor 'X' (NUL padding between records)
StrayByte == 0

\* the header bits of a record of n <= 4 sensors: every choice of the codes
\* 0, 1 and 2, and the byte whose codes are all 3
HeaderInputs(n) ==
    {<<PackCodes(cs)>> : cs \in [1..n -> 0..2]} \cup {<<PackCodes([k \in 1..n |-> 3])>>}

\* the bytes of a value, big-endian: 9; 100 and 200; 42.0 and +inf; 42.0 and -inf
ValuePatterns(size) ==
    CASE size = 1 -> <<(<<9>>)>>
      [] size = 2 -> <<(<<0, 100>>), (<<0, 200>>)>>
      [] size = 4 -> <<(<<66, 40, 0, 0>>), (<<127, 128, 0, 0>>)>>
      [] OTHER -> <<(<<64, 69, 0, 0, 0, 0, 0, 0>>), (<<255, 240, 0, 0, 0, 0, 0, 0>>)>>

\* a sensor that is alone in its roster draws from every pattern of its size,
\* a sensor of a larger roster from the first
ValueInputs(size, n) ==
    IF n = 1
    THEN {ValuePatterns(size)[k] : k \in 1..Len(ValuePatterns(size))}
    ELSE {ValuePatterns(size)[1]}

(***************************************************************************)
(* The files and calls the environment draws from.                         *)
(***************************************************************************)
Int16_100 == <<0, 100>>
Int16_200 == <<0, 200>>
Float_42 == <<66, 40, 0, 0>>
Int8_9 == <<9>>

File(mission, roster, records, end) ==
    [opens |-> TRUE, header |-> TRUE, mission |-> mission, factored |-> FALSE,
     cache |-> "miss", kb |-> TRUE, roster |-> roster, lines |-> LinesOf(roster),
     records |-> records,
     stream |-> EncodeStream(records, end)]

\* x (int16) and y (float32); two records: both new, then x repeated and y absent
FileP ==
    File("m2.mi", <<[name |-> "x", size |-> 2], [name |-> "y", size |-> 4]>>,
         <<[codes |-> <<2, 2>>, vals |-> <<Int16_100, Float_42>>],
           [codes |-> <<1, 0>>, vals |-> <<>>]>>,
         <<CharX>>)

\* y (float32) and z (int8), with the line of a sensor that is not available
\* between them; two records: y repeated before any value of it and z new,
\* then y new and z repeated
FileQ ==
    [File("m2.mi", <<[name |-> "y", size |-> 4], [name |-> "z", size |-> 1]>>,
          <<[codes |-> <<1, 2>>, vals |-> <<Int8_9>>],
            [codes |-> <<2, 1>>, vals |-> <<Float_42>>]>>,
          <<CharX>>)
     EXCEPT !.lines = <<[flag |-> "T", name |-> "y", size |-> 4],
                        [flag |-> "F", name |-> "q", size |-> 2],
                        [flag |-> "T", name |-> "z", size |-> 1]>>]

\* no record at all
FileEmpty == File("m2.mi", <<[name |-> "x", size |-> 2]>>, <<>>, <<CharX>>)

\* one record, of another mission
FileM1 ==
    File("m1.mi", <<[name |-> "y", size |-> 4]>>,
         <<[codes |-> <<2>>, vals |-> <<Float_42>>]>>, <<>>)

\* the same mission name in upper case
FileM1Upper == [FileM1 EXCEPT !.mission = "M1.MI"]

FileNoOpen == [FileEmpty EXCEPT !.opens = FALSE]

FileNoHeader == [FileEmpty EXCEPT !.header = FALSE]

\* factored, the sensor list in the cache directory or missing from it
FileCacheHit == [FileM1 EXCEPT !.mission = "m2.mi", !.factored = TRUE, !.cache = "hit"]

FileCacheMiss == [FileCacheHit EXCEPT !.cache = "miss"]

\* the known-bytes block does not validate
FileBadKnownBytes == [FileM1 EXCEPT !.mission = "m2.mi", !.kb = FALSE]

\* a sensor of 3 bytes; its value comes in the second record
FileOddSize ==
    File("m2.mi", <<[name |-> "x", size |-> 2], [name |-> "w", size |-> 3]>>,
         <<[codes |-> <<2, 0>>, vals |-> <<Int16_100>>],
           [codes |-> <<2, 2>>, vals |-> <<Int16_200, <<1, 2, 3>> >>]>>,
         <<CharX>>)

FileKinds ==
    {FileP, FileQ, FileEmpty, FileM1, FileM1Upper, FileNoOpen, FileNoHeader,
     FileCacheHit, FileCacheMiss, FileBadKnownBytes, FileOddSize}

Paths == 1..MaxFiles

\* the lists of distinct paths
PathLists ==
    UNION {{q \in [1..n -> Paths] : \A i, j \in 1..n : i # j => q[i] # q[j]} : n \in 0..MaxFiles}

DefaultOptions ==
    [cache_dir |-> "cache", to_keep |-> {}, criteria |-> {}, skip_missions |-> <<>>,
     keep_missions |-> <<>>, skip_first_record |-> FALSE, repair |-> FALSE,
     \* the revision of dbd_python.cpp the extension is built from
     build |-> "part_002"]

\* the defaults, and each option changed on its own
OptionSets ==
    {DefaultOptions,
     [DefaultOptions EXCEPT !.skip_first_record = TRUE],
     [DefaultOptions EXCEPT !.to_keep = {"x", "z"}],
     [DefaultOptions EXCEPT !.to_keep = {"x", "z"}, !.skip_first_record = TRUE],
     [DefaultOptions EXCEPT !.criteria = {"y"}],
     [DefaultOptions EXCEPT !.skip_missions = <<"m1.mi">>],
     [DefaultOptions EXCEPT !.keep_missions = <<"m2.mi">>],
     [DefaultOptions EXCEPT !.cache_dir = ""],
     [DefaultOptions EXCEPT !.repair = TRUE],
     [DefaultOptions EXCEPT !.build = "csrc"]}

Call(fn, filenames, o) ==
    [fn |-> fn, filenames |-> filenames, cache_dir |-> o.cache_dir, to_keep |-> o.to_keep,
     criteria |-> o.criteria, skip_missions |-> o.skip_missions,
     keep_missions |-> o.keep_missions, skip_first_record |-> o.skip_first_record,
     repair |-> o.repair, build |-> o.build]

\* the scans take the path list, the cache directory and the mission lists
ScanOptionSets ==
    {o \in OptionSets : /\ o.to_keep = {} /\ o.criteria = {}
                        /\ ~o.skip_first_record /\ ~o.repair
                        /\ o.build = DefaultOptions.build}

\* read_dbd_file takes no mission lists
SingleOptionSets == {o \in OptionSets : o.skip_missions = <<>> /\ o.keep_missions = <<>>}

Calls ==
    {Call("read_many", q, o) : q \in PathLists, o \in OptionSets}
      \cup {Call(fn, q, o) : fn \in {"scan_rosters", "scan_headers"},
                             q \in PathLists, o \in ScanOptionSets}
      \cup {Call("read_single", <<q>>, o) : q \in Paths, o \in SingleOptionSets}

NoCall == Call("none", <<>>, DefaultOptions)

IdleRun == [NewRun EXCEPT !.pc = "idle"]

(***************************************************************************)
(* State.                                                                  *)
(***************************************************************************)
(***************************************************************************)
(* parse_single_file step by step, on a cache directory that other         *)
(* invocations read and write: the binding releases the GIL around it.     *)
(***************************************************************************)
\* the sensor_list_crc of the header, modelled by the sensor lines it is the
\* checksum of
Header_crc(file) == file.lines

HasEntry(c, crc) == \E e \in c : e.crc = crc

EntryOf(c, crc) == CHOOSE e \in c : e.crc = crc

\* Sensors::load(dir, hdr): the list of {crc}.cac, nothing when there is no file
Sensors_load(c, crc) ==
    IF HasEntry(c, crc) THEN Sensors_fromLines(EntryOf(c, crc).lines) ELSE <<>>

\* Sensors::dump(dir): writes {crc}.cac unless it is there already
Sensors_dump(c, crc, roster) ==
    IF HasEntry(c, crc) THEN c ELSE c \cup {[crc |-> crc, lines |-> LinesOf(roster)]}

\* an invocation: seen tells whether it found the entry of its CRC at lines
\* 330-334, cache0 is the directory at its start, before the invocations
\* that had ended by then
NewProc(path, c, done) ==
    [path |-> path, pc |-> "called", sensors |-> <<>>, seen |-> FALSE, cache0 |-> c,
     before |-> done, result |-> NoResult]

\* DecompressTWR is(...); Header hdr(...); Sensors sensors(is, hdr)
SingleOpen(p, file) ==
    IF ~file.opens \/ ~file.header THEN [p EXCEPT !.pc = "raised"]
    ELSE [p EXCEPT !.pc = "cache",
                   !.sensors = IF file.factored THEN <<>> ELSE Sensors_fromLines(file.lines)]

\* variant: the list of an unfactored file is never written
SingleCache_NoDump(p, file, a, c) ==
    LET crc == Header_crc(file)
    IN  IF p.sensors = <<>> /\ a.cache_dir # ""
        THEN [proc |-> [p EXCEPT !.pc = "decode", !.sensors = Sensors_load(c, crc),
                                 !.seen = HasEntry(c, crc)],
              cache |-> c]
        ELSE [proc |-> [p EXCEPT !.pc = "decode"], cache |-> c]

\* variant: an entry that is there already counts as a failed dump
SingleCache_PresentIsFailure(p, file, a, c) ==
    LET crc == Header_crc(file)
    IN  IF p.sensors = <<>> /\ a.cache_dir # ""
        THEN [proc |-> [p EXCEPT !.pc = "decode", !.sensors = Sensors_load(c, crc),
                                 !.seen = HasEntry(c, crc)],
              cache |-> c]
        ELSE IF p.sensors # <<>> /\ a.cache_dir # ""
        THEN [proc |-> [p EXCEPT !.pc = "decode", !.seen = HasEntry(c, crc),
                                 !.sensors = IF HasEntry(c, crc) THEN <<>> ELSE @],
              cache |-> Sensors_dump(c, crc, p.sensors)]
        ELSE [proc |-> [p EXCEPT !.pc = "decode"], cache |-> c]

\* if (sensors.empty() && !cache_dir.empty()) sensors.load(cache_dir, hdr);
\* else if (!sensors.empty() && !cache_dir.empty()) sensors.dump(cache_dir);
SingleCache(p, file, a, c) ==
    LET crc == Header_crc(file)
    IN  IF p.sensors = <<>> /\ a.cache_dir # ""
        THEN [proc |-> [p EXCEPT !.pc = "decode", !.sensors = Sensors_load(c, crc),
                                 !.seen = HasEntry(c, crc)],
              cache |-> c]
        ELSE IF p.sensors # <<>> /\ a.cache_dir # ""
        THEN [proc |-> [p EXCEPT !.pc = "decode", !.seen = HasEntry(c, crc)],
              cache |-> Sensors_dump(c, crc, p.sensors)]
        ELSE [proc |-> [p EXCEPT !.pc = "decode"], cache |-> c]

\* if (sensors.empty()) throw; the filters, KnownBytes, read_columns, the
\* skip-first adjustment and the conversion, on the list the invocation holds
SingleDecode(p, file, a, ub) ==
    IF p.sensors = <<>> THEN [p EXCEPT !.pc = "raised"]
    ELSE LET view == [file EXCEPT !.factored = FALSE, !.lines = LinesOf(p.sensors)]
             r == read_dbd_file(NewRun, [a EXCEPT !.filenames = <<1>>], <<view>>, ub)
         IN  [p EXCEPT !.pc = r.pc, !.result = r.result]

\* parse_single_file with no other invocation at work
SingleAlone(file, a, c, ub) ==
    LET o == SingleOpen(NewProc(1, c, {}), file)
    IN  IF o.pc = "raised" THEN o
        ELSE SingleDecode(SingleCache(o, file, a, c).proc, file, a, ub)

Outcome(p) == [pc |-> p.pc, result |-> p.result]

Final == {"returned", "raised", "crashed"}

\* the factored file with the same header fields and data
FactoredOf(file) == [file EXCEPT !.factored = TRUE]

SessionKinds == {FileP, FactoredOf(FileP), FileQ, FactoredOf(FileQ), FileNoOpen}

SessionFiles == {<<f, g>> : f, g \in SessionKinds}

SessionOptionSets ==
    {DefaultOptions,
     [DefaultOptions EXCEPT !.cache_dir = ""],
     [DefaultOptions EXCEPT !.to_keep = {"x", "z"}, !.skip_first_record = TRUE]}

\* the directory at the start: empty, or with the list of FileP written earlier
InitialCaches ==
    {{}, {[crc |-> Header_crc(FileP), lines |-> LinesOf(FileP.roster)]}}

VARIABLES
    sensors,    \* the roster, with keep, criteria and index set
    qRepair,    \* the repair flag of the call
    dec,        \* the decoder (read_columns)
    api,        \* read_single around it: parse_single_file, then the conversion
    nRecs,      \* tag positions at which the stream went on
    nStray,     \* bytes other than 'd' supplied at and after a stray tag
    cur,        \* the record being decoded: tag position and raw values read
    hist,       \* the records decoded in full, oldest first
    snap,       \* the result a return at the latest tag position would give
    cause,      \* why the record loop ended
    files,      \* the file behind each path
    args,       \* the arguments of the call on files
    run,        \* the progress and the result of the call on files
    cache,      \* the cache directory: the sensor lists written to it, by CRC
    procs       \* the invocations of read_single of a session, in start order

dvars == <<sensors, qRepair, dec, api, nRecs, nStray, cur, hist, snap, cause>>

cvars == <<cache, procs>>

fvars == <<files, args, run, cache, procs>>

vars == <<sensors, qRepair, dec, api, nRecs, nStray, cur, hist, snap, cause, files, args, run,
          cache, procs>>

NoValue == [cls |-> "none", v |-> <<>>]

NoRecord == [tagPos |-> 0, vals |-> <<>>]

Init ==
    /\ \E roster \in Rosters :
         \E to_keep \in KeepSets(roster), criteria \in CriteriaSets(roster) :
            sensors = ApplyFilters(roster, to_keep, criteria)
    /\ qRepair \in BOOLEAN
    /\ dec = NewDecoder(sensors)
    /\ api = [pc |-> "decoding", skip_first_record |-> FALSE, start |-> 0,
              n_records |-> 0, columns |-> <<>>]
    /\ nRecs = 0
    /\ nStray = 0
    /\ cur = NoRecord
    /\ hist = <<>>
    /\ snap = [n_records |-> 0, columns |-> TrimAll(InitColumns(sensors), 0, sensors)]
    /\ cause = "none"
    /\ files = <<>>
    /\ args = NoCall
    /\ cache = {}
    /\ procs = <<>>
    /\ run = IdleRun

(***************************************************************************)
(* Actions.                                                                *)
(***************************************************************************)
CodesOf(bits, n) == [k \in 1..n |-> Code(bits, k)]

TagInputs ==
    {EOF, <<CharX>>}
      \cup (IF nRecs < RecordLimit(Len(sensors)) THEN {<<CharD>>} ELSE {})
      \cup (IF nRecs < RecordLimit(Len(sensors)) /\ nStray = 0 /\ MaxStray > 0
            THEN {<<StrayByte>>} ELSE {})

SearchInputs ==
    {EOF, <<CharD>>}
      \cup (IF nStray < MaxStray THEN {<<StrayByte>>, <<CharX>>} ELSE {})

ReadTag ==
    /\ dec.pc = "tag"
    /\ \E b \in TagInputs :
         /\ dec' = TagStep(dec, b)
         /\ nStray' = IF b \notin {EOF, <<CharX>>, <<CharD>>} THEN nStray + 1 ELSE nStray
         /\ cause' = CASE b = EOF -> "eof_tag"
                       [] b = <<CharX>> -> "end_tag"
                       [] b = <<CharD>> -> "none"
                       [] OTHER -> "stray"
    /\ cur' = [tagPos |-> dec'.pos, vals |-> <<>>]
    /\ nRecs' = IF dec'.pc \in {"header", "search"} THEN nRecs + 1 ELSE nRecs
    /\ snap' = [n_records |-> dec.nRows,
                columns |-> TrimAll(dec.columns, dec.nRows, sensors)]
    /\ UNCHANGED <<sensors, qRepair, api, hist>>
    /\ UNCHANGED fvars

Search ==
    /\ dec.pc = "search"
    /\ \E b \in SearchInputs :
         /\ dec' = SearchStep(dec, qRepair, b)
         /\ nStray' = IF b \notin {EOF, <<CharD>>} THEN nStray + 1 ELSE nStray
         /\ cause' = CASE b = EOF -> "no_d"
                       [] b = <<CharD>> -> IF qRepair THEN "none" ELSE "no_repair"
                       [] OTHER -> "stray"
    /\ cur' = [tagPos |-> dec'.pos, vals |-> <<>>]
    /\ UNCHANGED <<sensors, qRepair, api, nRecs, hist, snap>>
    /\ UNCHANGED fvars

ReadHeader ==
    /\ dec.pc = "header"
    /\ \E bs \in HeaderInputs(Len(sensors)) \cup {EOF} :
         /\ dec' = HeaderStep(dec, sensors, bs)
         /\ cause' = IF bs = EOF THEN "eof_header" ELSE cause
    /\ UNCHANGED <<sensors, qRepair, api, nRecs, nStray, cur, hist, snap>>
    /\ UNCHANGED fvars

DecodeSensor ==
    /\ dec.pc = "sensor"
    /\ LET size == sensors[dec.i].size
           reads == Code(dec.bits, dec.i) = 2
       IN  \E bs \in (IF reads THEN ValueInputs(size, Len(sensors)) \cup {EOF} ELSE {EOF}) :
             \E ub \in {"lost", "crash"} :
               /\ dec' = SensorStep(dec, sensors, bs, ub)
               /\ cur' = [cur EXCEPT !.vals =
                            Append(@, IF reads /\ bs # EOF
                                      THEN ReadValue(size, bs)
                                      ELSE NoValue)]
               /\ cause' = CASE dec'.pc = "crashed" -> "crash"
                             [] dec'.pc = "trim" -> "read_error"
                             [] OTHER -> cause
    /\ UNCHANGED <<sensors, qRepair, api, nRecs, nStray, hist, snap>>
    /\ UNCHANGED fvars

CommitRow ==
    /\ dec.pc = "commit"
    /\ dec' = CommitStep(dec)
    /\ hist' = Append(hist, [codes |-> CodesOf(dec.bits, Len(sensors)),
                             vals |-> cur.vals,
                             row |-> dec.nRows,
                             committed |-> dec'.nRows # dec.nRows])
    /\ UNCHANGED <<sensors, qRepair, api, nRecs, nStray, cur, snap, cause>>
    /\ UNCHANGED fvars

TrimColumns ==
    /\ dec.pc = "trim"
    /\ dec' = TrimStep(dec, sensors)
    /\ UNCHANGED <<sensors, qRepair, api, nRecs, nStray, cur, hist, snap, cause>>
    /\ UNCHANGED fvars

\* read_dbd_file: parse_single_file returns and its result is converted
ReadSingleReturn ==
    /\ dec.pc = "done"
    /\ api.pc = "decoding"
    /\ \E skip_first_record \in BOOLEAN :
         api' = single_result_to_python(ParseSingleReturn(dec, skip_first_record))
    /\ UNCHANGED <<sensors, qRepair, dec, nRecs, nStray, cur, hist, snap, cause>>
    /\ UNCHANGED fvars

Next ==
    \/ ReadTag
    \/ Search
    \/ ReadHeader
    \/ DecodeSensor
    \/ CommitRow
    \/ TrimColumns
    \/ ReadSingleReturn

Spec == Init /\ [][Next]_vars

(***************************************************************************)
(* The calls on files: read_many in its three phases, read_single,         *)
(* scan_rosters and scan_headers.                                          *)
(***************************************************************************)
InitFiles ==
    /\ sensors = <<>>
    /\ qRepair = FALSE
    /\ dec = [NewDecoder(<<>>) EXCEPT !.pc = "idle"]
    /\ api = [pc |-> "idle", skip_first_record |-> FALSE, start |-> 0,
              n_records |-> 0, columns |-> <<>>]
    /\ nRecs = 0
    /\ nStray = 0
    /\ cur = NoRecord
    /\ hist = <<>>
    /\ snap = [n_records |-> 0, columns |-> <<>>]
    /\ cause = "none"
    /\ files \in [Paths -> FileKinds]
    /\ args \in Calls
    /\ run = NewRun
    /\ cache = {}
    /\ procs = <<>>

ReadManyPass1 ==
    /\ args.fn = "read_many"
    /\ run.pc = "called"
    /\ run' = ManyPass1(run, args, files)
    /\ UNCHANGED <<files, args>>
    /\ UNCHANGED cvars
    /\ UNCHANGED dvars

ReadManyPass2 ==
    /\ args.fn = "read_many"
    /\ run.pc = "pass2"
    /\ \E ub \in {"lost", "crash"} : run' = ManyPass2(run, args, files, ub)
    /\ UNCHANGED <<files, args>>
    /\ UNCHANGED cvars
    /\ UNCHANGED dvars

ReadManyMerge ==
    /\ args.fn = "read_many"
    /\ run.pc = "merge"
    /\ run' = ManyMerge(run, args)
    /\ UNCHANGED <<files, args>>
    /\ UNCHANGED cvars
    /\ UNCHANGED dvars

ReadSingle ==
    /\ args.fn = "read_single"
    /\ run.pc = "called"
    /\ \E ub \in {"lost", "crash"} : run' = read_dbd_file(run, args, files, ub)
    /\ UNCHANGED <<files, args>>
    /\ UNCHANGED cvars
    /\ UNCHANGED dvars

ScanRosters ==
    /\ args.fn = "scan_rosters"
    /\ run.pc = "called"
    /\ run' = scan_sensor_list(run, args, files)
    /\ UNCHANGED <<files, args>>
    /\ UNCHANGED cvars
    /\ UNCHANGED dvars

ScanHeaders ==
    /\ args.fn = "scan_headers"
    /\ run.pc = "called"
    /\ run' = scan_file_headers(run, args, files)
    /\ UNCHANGED <<files, args>>
    /\ UNCHANGED cvars
    /\ UNCHANGED dvars

NextFiles ==
    \/ ReadManyPass1
    \/ ReadManyPass2
    \/ ReadManyMerge
    \/ ReadSingle
    \/ ScanRosters
    \/ ScanHeaders

SpecFiles == InitFiles /\ [][NextFiles]_vars

(***************************************************************************)
(* read_columns on whole streams.  The streams hold 'd', 'X' or the end of *)
(* the stream at every tag position: up to MaxStreamRecords records, an    *)
(* 'X', possibly bytes after the 'X', cut at any byte.                     *)
(***************************************************************************)
\* the records of a roster: every choice of the codes 0, 1 and 2
RecordsOf(roster) ==
    {[codes |-> cs,
      vals |-> [k \in 1..Len(roster) |->
                  IF cs[k] = 2 THEN ValuePatterns(roster[k].size)[1] ELSE <<>>]] :
        cs \in [1..Len(roster) -> 0..2]}

RecordSeqs(roster) ==
    UNION {[1..n -> RecordsOf(roster)] : n \in 0..MaxStreamRecords}

\* the 'X' that ends the data, alone or followed by the bytes of a record
StreamEnds(roster) ==
    {<<CharX>>,
     <<CharX>> \o EncodeRecord([codes |-> [k \in 1..Len(roster) |-> 2],
                                vals |-> [k \in 1..Len(roster) |->
                                            ValuePatterns(roster[k].size)[1]]])}

Prefixes(s) == {SubSeq(s, 1, n) : n \in 0..Len(s)}

StreamsOf(roster) ==
    UNION {Prefixes(EncodeStream(recs, end)) :
              recs \in RecordSeqs(roster), end \in StreamEnds(roster)}

InitStreams ==
    /\ \E roster \in Rosters :
         /\ \E criteria \in CriteriaSets(roster) :
               sensors = ApplyFilters(roster, {}, criteria)
         /\ files \in {<<[roster |-> roster, stream |-> st]>> : st \in StreamsOf(roster)}
    /\ qRepair \in BOOLEAN
    /\ dec = [NewDecoder(<<>>) EXCEPT !.pc = "idle"]
    /\ api = [pc |-> "idle", skip_first_record |-> FALSE, start |-> 0,
              n_records |-> 0, columns |-> <<>>]
    /\ nRecs = 0
    /\ nStray = 0
    /\ cur = NoRecord
    /\ hist = <<>>
    /\ snap = [n_records |-> 0, columns |-> <<>>]
    /\ cause = "none"
    /\ args = Call("read_columns", <<1>>, DefaultOptions)
    /\ run = NewRun
    /\ cache = {}
    /\ procs = <<>>

\* read_columns(is, kb, sensors, qRepair, nBytes) from its first byte to its return
DecodeStream ==
    /\ args.fn = "read_columns"
    /\ run.pc = "called"
    /\ \E ub \in {"lost", "crash"} :
         LET res == read_columns(sensors, files[1].stream, qRepair, ub)
         IN  run' = [run EXCEPT !.pc = IF res.crashed THEN "crashed" ELSE "returned",
                                !.result = [NoResult EXCEPT !.columns = res.columns,
                                                            !.sensor_info = res.sensor_info,
                                                            !.n_records = res.n_records]]
    /\ UNCHANGED <<files, args>>
    /\ UNCHANGED cvars
    /\ UNCHANGED dvars

NextStreams == DecodeStream

SpecStreams == InitStreams /\ [][NextStreams]_vars

(***************************************************************************)
(* A session of read_single invocations on one cache directory; the        *)
(* invocations interleave at the points where parse_single_file touches    *)
(* the file system.                                                        *)
(***************************************************************************)
InitCache ==
    /\ sensors = <<>>
    /\ qRepair = FALSE
    /\ dec = [NewDecoder(<<>>) EXCEPT !.pc = "idle"]
    /\ api = [pc |-> "idle", skip_first_record |-> FALSE, start |-> 0,
              n_records |-> 0, columns |-> <<>>]
    /\ nRecs = 0
    /\ nStray = 0
    /\ cur = NoRecord
    /\ hist = <<>>
    /\ snap = [n_records |-> 0, columns |-> <<>>]
    /\ cause = "none"
    /\ files \in SessionFiles
    /\ args \in {Call("session", <<>>, o) : o \in SessionOptionSets}
    /\ run = NewRun
    /\ cache \in InitialCaches
    /\ procs = <<>>

\* read_dbd_file is called on a path
StartRead ==
    /\ args.fn = "session"
    /\ Len(procs) < MaxCalls
    /\ \E path \in DOMAIN files :
         procs' = Append(procs, NewProc(path, cache,
                                        {i \in 1..Len(procs) : procs[i].pc \in Final}))
    /\ UNCHANGED <<files, args, run, cache>>
    /\ UNCHANGED dvars

OpenFile ==
    /\ args.fn = "session"
    /\ \E i \in 1..Len(procs) :
         /\ procs[i].pc = "called"
         /\ procs' = [procs EXCEPT ![i] = SingleOpen(procs[i], files[procs[i].path])]
    /\ UNCHANGED <<files, args, run, cache>>
    /\ UNCHANGED dvars

LoadOrDump ==
    /\ args.fn = "session"
    /\ \E i \in 1..Len(procs) :
         /\ procs[i].pc = "cache"
         /\ LET r == SingleCache(procs[i], files[procs[i].path], args, cache)
            IN  /\ procs' = [procs EXCEPT ![i] = r.proc]
                /\ cache' = r.cache
    /\ UNCHANGED <<files, args, run>>
    /\ UNCHANGED dvars

DecodeFile ==
    /\ args.fn = "session"
    /\ \E i \in 1..Len(procs) :
         /\ procs[i].pc = "decode"
         /\ \E ub \in {"lost", "crash"} :
              procs' = [procs EXCEPT ![i] = SingleDecode(procs[i], files[procs[i].path],
                                                         args, ub)]
    /\ UNCHANGED <<files, args, run, cache>>
    /\ UNCHANGED dvars

NextCache == StartRead \/ OpenFile \/ LoadOrDump \/ DecodeFile

SpecCache == InitCache /\ [][NextCache]_vars

(***************************************************************************)
(* read_columns on one record whose header bits take every byte value:     *)
(* the tag, the header bits, and the code of one sensor.                   *)
(***************************************************************************)
\* a roster of n sensors of one byte
BitRoster(n) == [k \in 1..n |-> [name |-> "s", size |-> 1]]

\* the bytes after the tag: more than any roster here has header bits for
BitBytes == (MaxBitSensors \div 4) + 1

\* one byte takes every value, the others hold the codes 0, 1, 2, 3
BitHeaders ==
    {[k \in 1..BitBytes |-> IF k = p THEN v ELSE 27] : p \in 1..BitBytes, v \in 0..255}

InitBits ==
    /\ \E n \in 1..MaxBitSensors : sensors = ApplyFilters(BitRoster(n), {}, {})
    /\ qRepair = FALSE
    /\ dec = NewDecoder(sensors)
    /\ api = [pc |-> "idle", skip_first_record |-> FALSE, start |-> 0,
              n_records |-> 0, columns |-> <<>>]
    /\ nRecs = 0
    /\ nStray = 0
    /\ cur = NoRecord
    /\ hist = <<>>
    /\ snap = [n_records |-> 0, columns |-> <<>>]
    /\ cause = "none"
    /\ files \in {<<[roster |-> BitRoster(Len(sensors)), stream |-> <<CharD>> \o h]>> :
                    h \in BitHeaders}
    /\ args = Call("read_bits", <<1>>, DefaultOptions)
    /\ run = [pc |-> "called", i |-> 0, code |-> 0]
    /\ cache = {}
    /\ procs = <<>>

\* is.read of the tag, then of the header bits
ReadBits ==
    /\ args.fn = "read_bits"
    /\ dec.pc \in {"tag", "header"}
    /\ dec' = DecoderStep(dec, sensors, files[1].stream, qRepair, "lost")
    /\ UNCHANGED <<sensors, qRepair, api, nRecs, nStray, cur, hist, snap, cause>>
    /\ UNCHANGED fvars

\* the code of sensor i of the record
ExtractCode ==
    /\ args.fn = "read_bits"
    /\ dec.pc = "sensor"
    /\ run.pc = "called"
    /\ \E k \in 1..Len(sensors) :
         run' = [pc |-> "extracted", i |-> k - 1, code |-> Code(dec.bits, k)]
    /\ UNCHANGED <<files, args>>
    /\ UNCHANGED cvars
    /\ UNCHANGED dvars

NextBits == ReadBits \/ ExtractCode

SpecBits == InitBits /\ [][NextBits]_vars

(***************************************************************************)
(* read_columns step by step on a finite stream, with record tags, stray   *)
(* bytes and the end tag in every order, cut at every byte.  The loop is   *)
(* sequential code: a step that can be taken is taken.                     *)
(***************************************************************************)
\* a (int8) and b (float32)
StepRoster == <<[name |-> "a", size |-> 1], [name |-> "b", size |-> 4]>>

\* a new and b absent; a repeated and b new; a stray byte; the end tag
StepItems ==
    {EncodeRecord([codes |-> <<2, 0>>, vals |-> <<Int8_9>>]),
     EncodeRecord([codes |-> <<1, 2>>, vals |-> <<Float_42>>]),
     <<StrayByte>>,
     <<CharX>>}

StepStreams ==
    UNION {Prefixes(Flatten(items)) :
              items \in UNION {[1..n -> StepItems] : n \in 0..MaxStepItems}}

InitSteps ==
    /\ sensors = ApplyFilters(StepRoster, {}, {})
    /\ qRepair \in BOOLEAN
    /\ dec = NewDecoder(sensors)
    /\ api = [pc |-> "idle", skip_first_record |-> FALSE, start |-> 0,
              n_records |-> 0, columns |-> <<>>]
    /\ nRecs = 0
    /\ nStray = 0
    /\ cur = NoRecord
    /\ hist = <<>>
    /\ snap = [n_records |-> 0, columns |-> <<>>]
    /\ cause = "none"
    /\ files \in {<<[roster |-> StepRoster, stream |-> st]>> : st \in StepStreams}
    /\ args = Call("read_steps", <<1>>, DefaultOptions)
    /\ run = NewRun
    /\ cache = {}
    /\ procs = <<>>

\* one step of the record loop, of the forward search, or the trim
StepDecoder ==
    /\ args.fn = "read_steps"
    /\ dec.pc \notin {"done", "crashed"}
    /\ \E ub \in {"lost", "crash"} :
         dec' = DecoderStep(dec, sensors, files[1].stream, qRepair, ub)
    /\ UNCHANGED <<sensors, qRepair, api, nRecs, nStray, cur, hist, snap, cause>>
    /\ UNCHANGED fvars

NextSteps == StepDecoder

SpecSteps == InitSteps /\ [][NextSteps]_vars /\ WF_vars(NextSteps)

TypeOK ==
    /\ dec.pc \in {"tag", "search", "header", "sensor", "commit", "trim", "done", "crashed"}
    /\ dec.nRows \in 0..RecordLimit(Len(sensors))
    /\ Len(dec.columns) = nOutOf(sensors)

(***************************************************************************)
(* Definitions shared by the properties.                                   *)
(***************************************************************************)
Kept == {k \in 1..Len(sensors) : outIndex(sensors)[k] >= 0}

ColOf(k) == outIndex(sensors)[k] + 1

\* the result read_columns returns
Result == [n_records |-> dec.nRows, columns |-> dec.columns]

(***************************************************************************)
(* C1.  Every column read_single returns has exactly n_records elements,   *)
(* for both values of skip_first_record.                                   *)
(***************************************************************************)
C1_ColumnLengthIsNRecords ==
    api.pc = "returned" =>
        \A c \in 1..Len(api.columns) : Len(api.columns[c]) = api.n_records

(***************************************************************************)
(* C2.  In every committed row of the result of read_columns, the cell of  *)
(* a kept sensor whose code in that record was 0 or 3 holds the fill value *)
(* of the sensor's type.                                                   *)
(***************************************************************************)
C2_AbsentCellIsFill ==
    dec.pc = "done" =>
        \A h \in 1..Len(hist) :
            hist[h].committed =>
                \A k \in Kept :
                    hist[h].codes[k] \in {0, 3} =>
                        dec.columns[ColOf(k)][hist[h].row + 1] = FillOf(sensors[k].size)

(***************************************************************************)
(* C3.  While every earlier record was committed: after the sensors of a   *)
(* record are decoded, the cell of a kept sensor with code 1 holds the     *)
(* value of the latest earlier code 2 of that sensor (the fill value if    *)
(* there was none), a code 0 has left the previous value as it was, and a  *)
(* code 2 has set the cell and the previous value to the value read.       *)
(***************************************************************************)
AllCommitted == \A h \in 1..Len(hist) : hist[h].committed

\* the value of the latest code 2 of sensor k in the records decoded in full
LastNew(k) ==
    LET hs == {h \in 1..Len(hist) : hist[h].codes[k] = 2}
    IN  IF hs = {} THEN FillOf(sensors[k].size) ELSE Sanitize(hist[SetMax(hs)].vals[k])

\* the cell of column c in the row being decoded (NoValue if there is none)
CurrentCell(c) ==
    IF dec.nRows < Len(dec.columns[c]) THEN dec.columns[c][dec.nRows + 1] ELSE NoValue

C3_RepeatAndNew ==
    (dec.pc = "commit" /\ AllCommitted) =>
        \A k \in Kept :
            LET code == Code(dec.bits, k)
                c == ColOf(k)
            IN  /\ code = 1 =>
                     /\ CurrentCell(c) = LastNew(k)
                     /\ dec.prevValues[c] = LastNew(k)
                /\ code = 2 =>
                     /\ CurrentCell(c) = Sanitize(cur.vals[k])
                     /\ dec.prevValues[c] = Sanitize(cur.vals[k])
                /\ code \in {0, 3} => dec.prevValues[c] = LastNew(k)

(***************************************************************************)
(* C4.  A record decoded in full adds one row if and only if a sensor with *)
(* criteria set had code 1 or 2 in it, kept or not; otherwise the row      *)
(* count stays.                                                            *)
(***************************************************************************)
CriteriaPresent(codes) ==
    \E k \in 1..Len(sensors) : sensors[k].criteria /\ codes[k] \in {1, 2}

C4_CommitIffCriteria ==
    [][dec.pc = "commit" =>
         dec'.nRows = dec.nRows
                        + (IF CriteriaPresent(CodesOf(dec.bits, Len(sensors))) THEN 1 ELSE 0)]_vars

\* a record was committed on a criteria sensor that is not kept, and another
\* record was dropped although a kept sensor had a value in it
C4_Witness ==
    /\ \E h \in 1..Len(hist) :
         /\ hist[h].committed
         /\ \A k \in Kept : ~(sensors[k].criteria /\ hist[h].codes[k] \in {1, 2})
    /\ \E h \in 1..Len(hist) :
         /\ ~hist[h].committed
         /\ \E k \in Kept : hist[h].codes[k] \in {1, 2}

(***************************************************************************)
(* C5.  With the default criteria (every sensor a criteria sensor) every   *)
(* record decoded in full is committed, a record whose codes are all 0     *)
(* included.                                                               *)
(***************************************************************************)
DefaultCriteria == \A k \in 1..Len(sensors) : sensors[k].criteria

C5_DefaultCriteriaCommitsAll ==
    DefaultCriteria => \A h \in 1..Len(hist) : hist[h].committed

(***************************************************************************)
(* C5, amended.  With the default criteria a record decoded in full is     *)
(* committed if and only if some sensor has code 1 or 2 in it; a record    *)
(* whose codes are all 0 or 3 is dropped.  One int16 sensor with codes     *)
(* 2,0,1,2 and values 100, 200 yields the column [100, 100, 200] and       *)
(* n_records = 3.                                                          *)
(***************************************************************************)
Int16Example ==
    /\ Len(sensors) = 1
    /\ sensors[1].size = 2
    /\ Kept = {1}
    /\ DefaultCriteria
    /\ dec.pc = "done"
    /\ cause \in {"eof_tag", "end_tag"}
    /\ [h \in 1..Len(hist) |-> hist[h].codes[1]] = <<2, 0, 1, 2>>
    /\ hist[1].vals[1] = IntV(100)
    /\ hist[4].vals[1] = IntV(200)

C5_DefaultCriteriaCommitsPresent ==
    /\ DefaultCriteria =>
         \A h \in 1..Len(hist) :
            hist[h].committed <=> (\E k \in 1..Len(sensors) : hist[h].codes[k] \in {1, 2})
    /\ Int16Example =>
         Result = [n_records |-> 3, columns |-> <<(<<IntV(100), IntV(100), IntV(200)>>)>>]

C5_Witness == Int16Example

(***************************************************************************)
(* C6.  When the sensors of a record have been decoded, the stream         *)
(* position is the position after the record's tag byte plus the header    *)
(* bytes plus the sizes of all sensors with code 2, kept or not.           *)
(***************************************************************************)
RECURSIVE NewBytes(_, _)
NewBytes(codes, n) ==
    IF n = 0 THEN 0
    ELSE NewBytes(codes, n - 1) + (IF codes[n] = 2 THEN sensors[n].size ELSE 0)

C6_ConsumesAllNewValues ==
    dec.pc = "commit" =>
        dec.pos = cur.tagPos + nHeaderOf(Len(sensors))
                    + NewBytes(CodesOf(dec.bits, Len(sensors)), Len(sensors))

\* a record with a code 2 for a sensor that is not kept has been decoded
C6_Witness ==
    /\ dec.pc = "commit"
    /\ \E k \in 1..Len(sensors) : k \notin Kept /\ Code(dec.bits, k) = 2

(***************************************************************************)
(* C7.  An 'X' read at a tag position ends the record loop, in both repair *)
(* modes, and the row count never changes afterwards; an 'X' read by the   *)
(* forward search for 'd' leaves the search going.                         *)
(***************************************************************************)
C7_XEndsOnlyAtTag ==
    [][/\ (dec.pc = "tag" /\ dec'.pc # "tag" /\ dec'.tag = CharX) =>
            /\ dec'.pc = "trim"
            /\ dec'.nRows = dec.nRows
       /\ (dec.pc \in {"trim", "done"} /\ dec.tag = CharX) =>
            /\ dec'.pc \in {"trim", "done"}
            /\ dec'.nRows = dec.nRows
            /\ hist' = hist
       /\ (dec.pc = "search" /\ dec' # dec /\ dec'.c = CharX) =>
            /\ dec'.pc = "search"
            /\ dec'.nRows = dec.nRows]_vars

\* rows were committed, a stray tag started the search, and the search has
\* just read an 'X'
C7_Witness ==
    /\ dec.pc = "search"
    /\ dec.c = CharX
    /\ dec.nRows > 0

(***************************************************************************)
(* C8.  After a tag byte that is neither 'd' nor 'X': without repair the   *)
(* result is exactly the rows committed before that byte; with repair the  *)
(* decoder goes on with the header bits after the next 'd', and returns    *)
(* the rows committed so far if the stream ends before a 'd'.  The search  *)
(* changes neither the row count nor the columns.                          *)
(***************************************************************************)
C8_StrayTag ==
    [][/\ (dec.pc = "tag" /\ dec'.pc # "tag" /\ dec'.tag \notin {-1, CharD, CharX}) =>
            /\ dec'.pc = "search"
            /\ dec'.nRows = dec.nRows
            /\ dec'.columns = dec.columns
       /\ (dec.pc = "search" /\ dec' # dec) =>
            /\ dec'.nRows = dec.nRows
            /\ dec'.columns = dec.columns
            /\ dec'.pc = (IF dec'.c = -1 THEN "trim"
                          ELSE IF dec'.c # CharD THEN "search"
                          ELSE IF qRepair THEN "header" ELSE "trim")
            /\ dec'.c # -1 => dec'.pos = dec.pos + 1
       /\ (dec'.pc = "done" /\ (cause' \in {"no_d", "no_repair"} \/ (~qRepair /\ nStray' > 0))) =>
            [n_records |-> dec'.nRows, columns |-> dec'.columns] = snap']_vars

\* with repair, rows were committed before a stray tag and the search has
\* found the next 'd'
C8_Witness ==
    /\ qRepair
    /\ dec.pc = "header"
    /\ dec.c = CharD
    /\ nStray > 0
    /\ dec.nRows > 0

(***************************************************************************)
(* C9.  When the stream ends or a read fails inside a record, read_columns *)
(* returns, and its result is the result a return at that record's tag     *)
(* position would have given: the partial record contributes nothing.      *)
(***************************************************************************)
C9_PartialRecordDiscarded ==
    (dec.pc = "done" /\ cause \in {"eof_header", "read_error"}) => Result = snap

(***************************************************************************)
(* C10.  No cell of a column, no previous value and no cell of the result  *)
(* of read_single is infinite; when a sensor's code 2 reads an infinite    *)
(* value, or its code 1 repeats one, the previous value and the cell       *)
(* written are NaN.                                                        *)
(***************************************************************************)
\* the raw value of the latest code 2 of sensor k, the record being decoded included
LastRaw(k) ==
    LET hs == {h \in 1..Len(hist) : hist[h].codes[k] = 2}
    IN  IF Code(dec.bits, k) = 2 THEN cur.vals[k]
        ELSE IF hs = {} THEN NoValue
        ELSE hist[SetMax(hs)].vals[k]

C10_NoInfinity ==
    /\ \A c \in 1..Len(dec.columns) :
         /\ dec.prevValues[c].cls # "inf"
         /\ \A r \in 1..Len(dec.columns[c]) : dec.columns[c][r].cls # "inf"
    /\ \A c \in 1..Len(api.columns) :
         \A r \in 1..Len(api.columns[c]) : api.columns[c][r].cls # "inf"
    /\ dec.pc = "commit" =>
         \A k \in Kept :
            (Code(dec.bits, k) \in {1, 2} /\ LastRaw(k).cls = "inf") =>
                /\ dec.prevValues[ColOf(k)] = NaN
                /\ dec.nRows < Len(dec.columns[ColOf(k)]) => CurrentCell(ColOf(k)) = NaN

\* an infinite value was read in an earlier record and is being repeated
C10_Witness ==
    /\ dec.pc = "commit"
    /\ \E k \in Kept : Code(dec.bits, k) = 1 /\ LastRaw(k).cls = "inf"

(***************************************************************************)
(* Definitions shared by the properties of the calls on files.             *)
(***************************************************************************)
ManyReturned == args.fn = "read_many" /\ run.pc = "returned"

\* the roster read_columns was given for an entry of allData
FileSensorsOf(fd) == SensorsMap_find(run.allSensors, Sensors_fromLines(files[fd.path].lines))

\* record j of the file and all records before it decode in full
RecordDecodes(file, j) ==
    \A i \in 1..j : \A k \in 1..Len(file.roster) :
        file.records[i].codes[k] = 2 => file.roster[k].size \in {1, 2, 4, 8}

\* a criteria sensor has code 1 or 2 in the record
RecordCommitted(fsens, rec) ==
    \E k \in 1..Len(fsens) : fsens[k].criteria /\ rec.codes[k] \in {1, 2}

\* the row of record j in the result of its file
RowOfRecord(file, fsens, j) ==
    Cardinality({i \in 1..(j - 1) : RecordCommitted(fsens, file.records[i])})

\* sensor k has code 1 in record j and no code 2 in an earlier record of the file
RepeatBeforeNew(file, j, k) ==
    /\ file.records[j].codes[k] = 1
    /\ \A i \in 1..(j - 1) : file.records[i].codes[k] # 2

\* the row range the merge gave to a path (none when the file gave no row)
RangesOf(path) == {q \in 1..Len(run.ranges) : run.ranges[q].path = path}

(***************************************************************************)
(* C11.  In read_many a code 1 for a kept sensor in a record of a file     *)
(* that has no earlier code 2 for the sensor yields the fill value, in the *)
(* result of that file and in the file's rows of the union column,         *)
(* whatever the files decoded before it held.                              *)
(***************************************************************************)
C11_NoCarryOverBetweenFiles ==
    ManyReturned =>
        \A e \in 1..Len(run.allData) :
            LET fd == run.allData[e]
                file == files[fd.path]
                fsens == FileSensorsOf(fd)
            IN  \A j \in 1..Len(file.records) : \A k \in 1..Len(fsens) :
                    (/\ fsens[k].keep
                     /\ RecordDecodes(file, j)
                     /\ RecordCommitted(fsens, file.records[j])
                     /\ RepeatBeforeNew(file, j, k)) =>
                        LET row == RowOfRecord(file, fsens, j)
                            c == fsens[k].index + 1
                        IN  /\ fd.columns[c][row + 1] = FillOf(fsens[k].size)
                            /\ \A q \in RangesOf(fd.path) :
                                 row >= run.ranges[q].start =>
                                    run.result.columns[c][run.ranges[q].first + row
                                                            - run.ranges[q].start]
                                        = FillOf(fsens[k].size)

\* a file decoded earlier read a value for the sensor, and a later file
\* repeats the sensor before any value of its own
C11_Witness ==
    /\ ManyReturned
    /\ \E e1, e2 \in 1..Len(run.allData) :
         /\ e1 < e2
         /\ LET f1 == files[run.allData[e1].path]
                f2 == files[run.allData[e2].path]
                s2 == FileSensorsOf(run.allData[e2])
            IN  \E k1 \in 1..Len(f1.roster), k2 \in 1..Len(f2.roster) :
                   /\ f1.roster[k1].name = f2.roster[k2].name
                   /\ s2[k2].keep
                   /\ \E j \in 1..Len(f1.records) : f1.records[j].codes[k1] = 2
                   /\ RepeatBeforeNew(f2, 1, k2)
                   /\ RecordCommitted(s2, f2.records[1])
                   /\ RangesOf(run.allData[e2].path) # {}

(***************************************************************************)
(* C13.  In the result of read_many every cell of a union column in the    *)
(* row range of a file whose roster lacks the column's sensor holds the    *)
(* fill value of the column's type: -127 for int8, -32768 for int16, NaN   *)
(* for float32 and float64.                                                *)
(***************************************************************************)
RosterLacks(path, name) ==
    \A k \in 1..Len(files[path].roster) : files[path].roster[k].name # name

C13_AbsentSensorIsFill ==
    ManyReturned =>
        \A q \in 1..Len(run.ranges) : \A u \in 1..Len(run.result.columns) :
            RosterLacks(run.ranges[q].path, run.result.sensor_info[u].name) =>
                \A r \in run.ranges[q].first..run.ranges[q].last :
                    run.result.columns[u][r] =
                        (CASE run.result.sensor_info[u].size = 1 -> IntV(-127)
                           [] run.result.sensor_info[u].size = 2 -> IntV(-32768)
                           [] OTHER -> NaN)

(***************************************************************************)
(* C14.  With skip_first_record in read_many the first file in sorted      *)
(* order that decodes to at least one record keeps all its rows, and every *)
(* later file that decodes to at least one record drops exactly its first  *)
(* row; files with zero records or that fail in pass 2 do not change which *)
(* file is the first contributing one.                                     *)
(***************************************************************************)
\* the rows the merge copied for a path: the start in the file, the count
RowsGiven(path, start, count) ==
    IF count = 0 THEN RangesOf(path) = {}
    ELSE \E q \in RangesOf(path) :
            /\ run.ranges[q].start = start
            /\ run.ranges[q].last - run.ranges[q].first + 1 = count

C14_FirstContributingKeepsAll ==
    (ManyReturned /\ args.skip_first_record) =>
        \A e \in 1..Len(run.allData) :
            LET fd == run.allData[e]
                isFirst == \A b \in 1..(e - 1) : run.allData[b].n_records = 0
            IN  fd.n_records > 0 =>
                    IF isFirst THEN RowsGiven(fd.path, 0, fd.n_records)
                    ELSE RowsGiven(fd.path, 1, fd.n_records - 1)

(***************************************************************************)
(* C12.  For every kept union sensor the union column returned by          *)
(* read_many is the concatenation, in sorted-path order of the             *)
(* contributing files, of each file's decoded rows for the sensor after    *)
(* the skip-first rule (all but the first contributing file drop their     *)
(* first row), each file's rows in the file's own row range; the sensor is *)
(* found by name, whatever its position in the file's roster.              *)
(***************************************************************************)
\* the first row a decoded file gives under the skip-first rule, 0-based
RuleStart(e) ==
    IF /\ args.skip_first_record
       /\ run.allData[e].n_records > 0
       /\ \E b \in 1..(e - 1) : run.allData[b].n_records > 0
    THEN 1 ELSE 0

RuleCount(e) == run.allData[e].n_records - RuleStart(e)

RECURSIVE RuleOffset(_)
RuleOffset(e) == IF e <= 1 THEN 0 ELSE RuleOffset(e - 1) + RuleCount(e - 1)

C12_UnionIsConcatenation ==
    ManyReturned =>
        /\ run.result.n_records = RuleOffset(Len(run.allData) + 1)
        /\ \A u \in 1..Len(run.result.columns) :
              Len(run.result.columns[u]) = run.result.n_records
        /\ \A e \in 1..Len(run.allData) :
              LET fd == run.allData[e]
              IN  \A ci \in 1..Len(fd.columns) :
                   \* a slot of the file's result that holds a kept sensor
                   fd.sensor_info[ci].name # "" =>
                     \E u \in 1..Len(run.result.columns) :
                     /\ run.result.sensor_info[u].name = fd.sensor_info[ci].name
                     /\ \A r \in 1..RuleCount(e) :
                           /\ RuleOffset(e) + r <= Len(run.result.columns[u])
                           /\ run.result.columns[u][RuleOffset(e) + r]
                                 = fd.columns[ci][RuleStart(e) + r]

(***************************************************************************)
(* C15.  For a single path p and the same to_keep, criteria, cache_dir,    *)
(* skip_first_record and repair, read_many([p]) returns the same           *)
(* n_records, the same sensor list and the same column contents as         *)
(* read_single(p).                                                         *)
(***************************************************************************)
\* read_many of one path without mission filters has returned
ManyOfOneReturned ==
    /\ ManyReturned
    /\ Len(args.filenames) = 1
    /\ args.skip_missions = <<>>
    /\ args.keep_missions = <<>>

\* read_single of the path of the call, with the options of the call
SingleOfSame == read_dbd_file(NewRun, [args EXCEPT !.fn = "read_single"], files, "lost")

SameData(a, b) ==
    /\ a.n_records = b.n_records
    /\ a.sensor_info = b.sensor_info
    /\ a.columns = b.columns

\* as stated: for every path and every setting of the options
C15_SingleEqualsMany ==
    ManyOfOneReturned =>
        /\ SingleOfSame.pc = "returned"
        /\ SameData(run.result, SingleOfSame.result)

(***************************************************************************)
(* C16.  In read_many a file is silently skipped only when it cannot be    *)
(* opened, its header is empty or its mission is filtered out: when        *)
(* read_many returns a result, every file of the list that was not decoded *)
(* into the result is one of these; any other per-file error (cache miss   *)
(* on a factored file, invalid known-bytes block) is surfaced instead.     *)
(***************************************************************************)
DecodedPaths == {run.allData[e].path : e \in 1..Len(run.allData)}

SilentSkipAllowed(path) ==
    LET ms == MissionSets(args.skip_missions, args.keep_missions)
    IN  \/ ~files[path].opens
        \/ ~files[path].header
        \/ ~qProcessMission(files[path].mission, ms.skipSet, ms.keepSet)

C16_OnlyAllowedSilentSkips ==
    ManyReturned =>
        \A i \in 1..Len(args.filenames) :
            args.filenames[i] \notin DecodedPaths => SilentSkipAllowed(args.filenames[i])

(***************************************************************************)
(* C17.  When a record carries a code 2 value for a sensor whose size is   *)
(* not 1, 2, 4 or 8, read_single / read_many end with an error surfaced to *)
(* the caller, never with a successful result truncated at that record.    *)
(***************************************************************************)
\* the decoder reaches a code 2 of a sensor of unknown size in the file
HitsUnknownSize(file) ==
    \E j \in 1..Len(file.records) : \E k \in 1..Len(file.roster) :
        /\ file.records[j].codes[k] = 2
        /\ file.roster[k].size \notin {1, 2, 4, 8}
        /\ RecordDecodes(file, j - 1)

\* read_columns is called on the file of the path
Decoded(path) ==
    /\ files[path].kb
    /\ IF args.fn = "read_single"
       THEN ~SingleFailure(files[path], args.cache_dir)
       ELSE \E i \in 1..Len(run.valid_files) : run.valid_files[i] = path

C17_UnknownSizeSurfaces ==
    (/\ args.fn \in {"read_single", "read_many"}
     /\ run.pc \in {"returned", "raised"}
     /\ \E i \in 1..Len(args.filenames) :
           Decoded(args.filenames[i]) /\ HitsUnknownSize(files[args.filenames[i]])) =>
        run.pc = "raised"

(***************************************************************************)
(* C18.  read_single surfaces an error and returns no result when the path *)
(* cannot be opened, when the header is empty, or when the roster of a     *)
(* factored file cannot be obtained from the cache; it never returns an    *)
(* empty or partial result in these cases.                                 *)
(***************************************************************************)
SingleDone == args.fn = "read_single" /\ run.pc # "called"

\* the file of the call cannot be opened, has an empty header, or is factored
\* with no cache directory or no cached sensor list
Unreadable ==
    LET file == files[args.filenames[1]]
    IN  \/ ~file.opens
        \/ ~file.header
        \/ file.factored /\ (args.cache_dir = "" \/ file.cache # "hit")

C18_SingleSurfacesErrors ==
    (SingleDone /\ Unreadable) => (run.pc = "raised" /\ run.result = NoResult)

\* read_single ended on a factored file whose sensor list is not in the cache
C18_Witness ==
    /\ SingleDone
    /\ files[args.filenames[1]].opens
    /\ files[args.filenames[1]].header
    /\ files[args.filenames[1]].factored
    /\ files[args.filenames[1]].cache # "hit"
    /\ args.cache_dir # ""
    /\ run.pc = "raised"

(***************************************************************************)
(* C19.  The result of read_many does not depend on the order of the input *)
(* path list: the files are processed in sorted path order in both passes, *)
(* the rows of a file appear in stream order, and the rows of a file       *)
(* earlier in sorted order precede all rows of a later file.               *)
(***************************************************************************)
\* the path list in every order
Reorderings(seq) ==
    {[i \in 1..Len(seq) |-> seq[p[i]]] : p \in Permutations(1..Len(seq))}

Increasing(seq) == \A i, j \in 1..Len(seq) : i < j => seq[i] < seq[j]

C19_OrderIndependent ==
    ManyReturned =>
        \* every order of the list gives the result of the ascending order
        /\ LET q == CHOOSE o \in Reorderings(args.filenames) : Increasing(o)
               other == parse_multiple_files([args EXCEPT !.filenames = q], files, "lost")
           IN  other.pc = "returned" /\ other.result = run.result
        /\ Increasing(run.sorted_files)
        /\ Increasing(run.valid_files)
        /\ Increasing([e \in 1..Len(run.allData) |-> run.allData[e].path])
        /\ Increasing([q \in 1..Len(run.ranges) |-> run.ranges[q].path])
        \* the row ranges follow each other in the order of the paths
        /\ \A q \in 1..Len(run.ranges) :
              /\ run.ranges[q].first = (IF q = 1 THEN 1 ELSE run.ranges[q - 1].last + 1)
              /\ run.ranges[q].first <= run.ranges[q].last
        \* inside a range the rows are the file's rows in stream order
        /\ \A q \in 1..Len(run.ranges) : \A e \in 1..Len(run.allData) :
              run.allData[e].path = run.ranges[q].path =>
                 \A ci \in 1..Len(run.allData[e].columns) :
                 \A u \in 1..Len(run.result.columns) :
                    (/\ run.allData[e].sensor_info[ci].name # ""
                     /\ run.allData[e].sensor_info[ci].name = run.result.sensor_info[u].name) =>
                        \A r \in run.ranges[q].first..run.ranges[q].last :
                            run.result.columns[u][r] =
                                run.allData[e].columns[ci][run.ranges[q].start + r
                                                            - run.ranges[q].first + 1]

\* the list was given in descending order and both files gave rows
C19_Witness ==
    /\ ManyReturned
    /\ Len(args.filenames) >= 2
    /\ args.filenames[1] > args.filenames[2]
    /\ Len(run.ranges) >= 2
    /\ run.ranges[1].last > run.ranges[1].first

(***************************************************************************)
(* C20.  In read_many, scan_rosters and scan_headers a file that opens     *)
(* with a header is processed if and only if its mission_name is not in    *)
(* skip_missions and, when keep_missions is non-empty, is in               *)
(* keep_missions; with both lists empty every such file is processed; the  *)
(* names are compared as stored, case-sensitively.                         *)
(***************************************************************************)
SeqToSet(seq) == {seq[i] : i \in 1..Len(seq)}

\* the file passed the mission filter of the call
Processed(path) ==
    IF args.fn = "scan_headers"
    THEN \E i \in 1..Len(run.result.headers) : run.result.headers[i].filename = path
    ELSE \E i \in 1..Len(run.scanned) : run.scanned[i] = path

FilterDone ==
    /\ args.fn \in {"read_many", "scan_rosters", "scan_headers"}
    /\ run.pc # "called"

C28_WritesInBounds ==
    dec.pc = "sensor" =>
        LET k == dec.i
            oi == outIndex(sensors)[k]
        IN  (Code(dec.bits, k) \in {1, 2} /\ oi >= 0) =>
                dec.nRows < Len(Grow(dec.columns[oi + 1], dec.nRows, FillOf(sensors[k].size)))

(***************************************************************************)
(* C27.  A dropped record (no criteria sensor had code 1 or 2) leaves the  *)
(* decoder as it was before the record: the previous values are those of   *)
(* the committed records only, so a later code 1 never returns a value     *)
(* read in a dropped record, and a committed row never shows a cell        *)
(* written by a dropped record.                                            *)
(***************************************************************************)
\* the value of the latest code 2 of sensor k in the committed records
LastCommittedNew(k) ==
    LET hs == {h \in 1..Len(hist) : hist[h].committed /\ hist[h].codes[k] = 2}
    IN  IF hs = {} THEN FillOf(sensors[k].size) ELSE Sanitize(hist[SetMax(hs)].vals[k])

\* the records dropped since the last committed one
DroppedSince ==
    {h \in 1..Len(hist) : ~hist[h].committed /\ \A g \in (h + 1)..Len(hist) : ~hist[g].committed}

C27_DroppedRecordLeavesNoTrace ==
    /\ dec.pc = "tag" =>
          \A k \in Kept : dec.prevValues[ColOf(k)] = LastCommittedNew(k)
    /\ dec.pc = "commit" =>
          \A k \in Kept :
             dec.nRows < Len(dec.columns[ColOf(k)]) =>
                /\ Code(dec.bits, k) = 1 => CurrentCell(ColOf(k)) = LastCommittedNew(k)
                \* a sensor absent from the record shows nothing a dropped record read
                /\ Code(dec.bits, k) \in {0, 3} =>
                      \A h \in DroppedSince :
                         hist[h].codes[k] = 2 =>
                            \/ CurrentCell(ColOf(k)) # Sanitize(hist[h].vals[k])
                            \/ CurrentCell(ColOf(k)) = FillOf(sensors[k].size)

(***************************************************************************)
(* C26.  For every stream in which each tag position holds 'd', 'X' or the *)
(* end of the stream, also one cut inside a record, decoding with repair   *)
(* and without repair gives the same n_records and the same columns.       *)
(***************************************************************************)
StreamDecoded == args.fn = "read_columns" /\ run.pc = "returned"

C26_RepairIrrelevantWithoutStray ==
    StreamDecoded =>
        LET other == read_columns(sensors, files[1].stream, ~qRepair, "lost")
        IN  /\ other.n_records = run.result.n_records
            /\ other.columns = run.result.columns

\* a stream cut inside the values of a record that follows a committed record,
\* decoded with repair
C26_Witness ==
    /\ StreamDecoded
    /\ qRepair
    /\ run.result.n_records >= 1
    /\ \E recs \in RecordSeqs(files[1].roster) :
          /\ Len(recs) >= 2
          /\ Len(files[1].stream) < Len(EncodeStream(recs, <<>>))
          /\ Len(files[1].stream) > Len(EncodeStream(SubSeq(recs, 1, Len(recs) - 1), <<>>)) + 2
          /\ files[1].stream = SubSeq(EncodeStream(recs, <<>>), 1, Len(files[1].stream))

(***************************************************************************)
(* C29.  In read_many the reported n_records is the sum over the decoded   *)
(* files of the rows each contributes (its committed rows, less the first  *)
(* row where the merge skips it) and is the length of every union column;  *)
(* the row ranges of distinct files are disjoint, contiguous and in file   *)
(* order, and every row the merge writes lies below that total.            *)
(***************************************************************************)
\* the rows the merge copies from the e-th decoded file
Contribution(e) ==
    LET n == run.allData[e].n_records
    IN  IF args.skip_first_record /\ e > 1 /\ n > 0 THEN n - 1 ELSE n

RECURSIVE SumContribution(_)
SumContribution(e) == IF e = 0 THEN 0 ELSE SumContribution(e - 1) + Contribution(e)

Pass1Names ==
    UNION {NamesOf(RosterOf(files[run.valid_files[i]], args.cache_dir)) :
              i \in 1..Len(run.valid_files)}

Pass1Rosters ==
    {RosterOf(files[run.valid_files[i]], args.cache_dir) : i \in 1..Len(run.valid_files)}

C30_ProbeStartsAtRosterEnd ==
    (args.fn = "read_many" /\ run.pc \in {"merge", "returned", "raised", "crashed"}) =>
        \A i \in 1..Len(run.probes) :
            LET file == files[run.probes[i].path]
            IN  /\ run.probes[i].at = Pass1End(file)
                /\ file.factored => run.probes[i].at = 0

(***************************************************************************)
(* C22.  A roster holds exactly the sensor lines flagged T, in file order, *)
(* and never an entry for a line flagged F: the i-th entry is the sensor   *)
(* of the i-th code of the header bits of every record, and the header     *)
(* bits take ceil(|roster| / 4) bytes.                                     *)
(***************************************************************************)
\* read_single without filters returned the data of an unfactored file
SingleReturnedAll ==
    /\ args.fn = "read_single" /\ run.pc = "returned"
    /\ args.to_keep = {} /\ args.criteria = {} /\ ~args.skip_first_record
    /\ ~files[args.filenames[1]].factored

\* the lines flagged T, in file order
AvailableLines(file) == SelectSeq(file.lines, LAMBDA l : l.flag = "T")

\* the place of the value of the i-th code among the values of a record
ValueIndex(rec, i) == Cardinality({k \in 1..i : rec.codes[k] = 2})

C22_RosterIsAvailableLines ==
    SingleReturnedAll =>
        LET file == files[args.filenames[1]]
            avail == AvailableLines(file)
            info == run.result.sensor_info
            unit == [k \in 1..Len(avail) |-> [keep |-> TRUE, criteria |-> TRUE]]
        IN  /\ Len(info) = Len(avail)
            /\ \A i \in 1..Len(avail) :
                  info[i].name = avail[i].name /\ info[i].size = avail[i].size
            /\ \A l \in 1..Len(file.lines) :
                  file.lines[l].flag = "F" =>
                      \A i \in 1..Len(info) : info[i].name # file.lines[l].name
            /\ \A j \in 1..Len(file.records) : \A i \in 1..Len(avail) :
                  (/\ RecordDecodes(file, Len(file.records))
                   /\ Len(file.records[j].codes) = Len(avail)
                   /\ file.records[j].codes[i] = 2) =>
                      LET rec == file.records[j]
                          row == RowOfRecord(file, unit, j)
                          raw == ReadValue(avail[i].size, rec.vals[ValueIndex(rec, i)])
                      IN  run.result.columns[i][row + 1] =
                              (IF avail[i].size \in {4, 8} THEN Sanitize(raw) ELSE raw)
            /\ \A n \in 0..(4 * Len(file.lines) + 1) :
                  /\ 4 * nHeaderOf(n) >= n
                  /\ 4 * (nHeaderOf(n) - 1) < n
            /\ \A j \in 1..Len(file.records) :
                  Len(EncodeRecord(file.records[j])) =
                      1 + nHeaderOf(Len(avail)) + Len(Flatten(file.records[j].vals))

\* a file with a line flagged F between two lines flagged T, and a new value
\* of the sensor after it in the first record
C22_Witness ==
    /\ SingleReturnedAll
    /\ LET file == files[args.filenames[1]]
       IN  /\ \E l \in 2..(Len(file.lines) - 1) :
                 /\ file.lines[l].flag = "F"
                 /\ file.lines[l - 1].flag = "T" /\ file.lines[l + 1].flag = "T"
           /\ Len(file.records) >= 2
           /\ file.records[1].codes[2] = 2
           /\ run.result.n_records = 2
           /\ run.result.sensor_info[2].name = "z"
           /\ run.result.columns[2][1] = IntV(9)

(***************************************************************************)
(* Definitions shared by the properties of the sessions on a cache         *)
(* directory.                                                              *)
(***************************************************************************)
Session == args.fn = "session"

FileOfProc(i) == files[procs[i].path]

\* invocation i had ended when invocation j was called
EndedBefore(i, j) == i \in procs[j].before

\* the invocation got as far as a sensor list read from the stream
ParsedInline(i) ==
    /\ ~FileOfProc(i).factored
    /\ procs[i].pc \in {"decode"} \cup Final
    /\ procs[i].sensors # <<>>

(***************************************************************************)
(* C21.  After read_single has parsed an unfactored file with a cache      *)
(* directory given, the directory holds the entry of the file's sensor     *)
(* list CRC; a later read_single of a factored file with that CRC and      *)
(* directory returns what read_single of the equivalent unfactored file    *)
(* returns; with the entry absent the factored read fails.                 *)
(***************************************************************************)
C21_CacheEntryServesFactored ==
    Session =>
        \A i \in 1..Len(procs) :
            /\ (ParsedInline(i) /\ args.cache_dir # "") =>
                   /\ HasEntry(cache, Header_crc(FileOfProc(i)))
                   /\ \A j \in 1..Len(procs) :
                         (/\ EndedBefore(i, j)
                          /\ FileOfProc(j).factored
                          /\ Header_crc(FileOfProc(j)) = Header_crc(FileOfProc(i))
                          /\ procs[j].pc \in Final) =>
                             /\ procs[j].pc = "returned"
                             /\ \E ub \in {"lost", "crash"} :
                                   Outcome(procs[j]) =
                                       Outcome(SingleAlone([FileOfProc(j) EXCEPT
                                                               !.factored = FALSE],
                                                           args, {}, ub))
            /\ (FileOfProc(i).factored /\ procs[i].pc \in Final /\ ~procs[i].seen) =>
                   (procs[i].pc = "raised" /\ procs[i].result = NoResult)

\* an unfactored file with an unavailable sensor is read on an empty
\* directory, and then its factored twin, which returns both records
C21_Witness ==
    /\ Session
    /\ Len(procs) = 2
    /\ procs[1].cache0 = {} /\ ParsedInline(1) /\ procs[1].pc = "returned"
    /\ \E l \in 1..Len(FileOfProc(1).lines) : FileOfProc(1).lines[l].flag = "F"
    /\ EndedBefore(1, 2)
    /\ FileOfProc(2) = FactoredOf(FileOfProc(1))
    /\ procs[2].seen
    /\ procs[2].pc = "returned"
    /\ procs[2].result.n_records = 2

DisjointPaths == \A i, j \in 1..Len(procs) : i # j => procs[i].path # procs[j].path

C25_ConcurrentEqualsAlone ==
    (Session /\ DisjointPaths) =>
        \A j \in 1..Len(procs) :
            procs[j].pc \in Final =>
                \E ub \in {"lost", "crash"} :
                    Outcome(procs[j]) =
                        Outcome(SingleAlone(FileOfProc(j), args, procs[j].cache0, ub))

(***************************************************************************)
(* C31.  For every value 0..255 of a header byte, held as a signed 8-bit   *)
(* value, and every sensor index i, the code read_columns extracts for     *)
(* sensor i is the 2-bit field at bit positions 6 - 2(i mod 4) and         *)
(* 6 - 2(i mod 4) + 1 of header byte floor(i / 4), a value in 0..3; a      *)
(* record's header bits take ceil(n_sensors / 4) bytes.                    *)
(***************************************************************************)
\* bit p of the byte u, 0 the lowest
BitOf(u, p) == (u \div (2 ^ p)) % 2

C31_CodeIsTwoBitField ==
    args.fn = "read_bits" =>
        /\ run.pc = "extracted" =>
              LET i == run.i
                  u == files[1].stream[2 + (i \div 4)]
                  lo == 6 - 2 * (i % 4)
              IN  /\ run.code = 2 * BitOf(u, lo + 1) + BitOf(u, lo)
                  /\ run.code \in 0..3
        /\ dec.pc = "sensor" =>
              LET n == Len(sensors)
                  ceil == CHOOSE m \in 0..n : 4 * m >= n /\ 4 * (m - 1) < n
              IN  /\ Len(dec.bits) = ceil
                  /\ dec.pos = 1 + ceil
                  /\ \A k \in 1..ceil : dec.bits[k] \in -128..127

\* the first sensor of the second byte, the byte being negative as an int8_t
\* and its two high bits both set
C31_Witness ==
    /\ args.fn = "read_bits"
    /\ run.pc = "extracted"
    /\ run.i = 4
    /\ files[1].stream[3] >= 192
    /\ dec.bits[2] < 0
    /\ run.code = 3

(***************************************************************************)
(* C32.  The n_files read_many returns is the number of input files that   *)
(* completed pass 1 (opened, header not empty, mission accepted, roster    *)
(* inserted), whether or not the file gives a row or fails in pass 2; it   *)
(* is 0, with n_records = 0 and no columns, when the list is empty or no   *)
(* file completes pass 1.                                                  *)
(***************************************************************************)
\* the file at the path opens, has a header, is of an accepted mission and
\* has a sensor list, inline or in the cache directory
CompletesPass1(path) ==
    LET file == files[path]
        ms == MissionSets(args.skip_missions, args.keep_missions)
    IN  /\ file.opens
        /\ file.header
        /\ qProcessMission(file.mission, ms.skipSet, ms.keepSet)
        /\ file.factored => (args.cache_dir # "" /\ file.cache = "hit")

Pass1Completed == {path \in SeqToSet(args.filenames) : CompletesPass1(path)}

C32_NFilesCountsPass1 ==
    ManyReturned =>
        /\ run.result.n_files = Cardinality(Pass1Completed)
        /\ Pass1Completed = {} =>
              /\ run.result.n_files = 0
              /\ run.result.n_records = 0
              /\ run.result.columns = <<>>

\* two files complete pass 1 and one of them fails in pass 2
C32_Witness ==
    /\ ManyReturned
    /\ run.result.n_files = 2
    /\ Len(run.allData) = 1
    /\ \E path \in Pass1Completed : ~files[path].kb
    /\ run.result.n_records >= 1

(***************************************************************************)
(* C33.  read_columns terminates on every finite stream, with and without  *)
(* repair: every iteration of the record loop and of the forward search    *)
(* for 'd' consumes a byte or ends the loop, so decoding always reaches    *)
(* the trim and the return.                                                *)
(***************************************************************************)
C33_DecodingReachesReturn == args.fn = "read_steps" => <>(dec.pc = "done")

(***************************************************************************)
(* C34.  to_keep is a pure projection: for the same stream, roster and     *)
(* criteria, decoding with a kept subset K gives the same n_records as     *)
(* decoding with every sensor kept, and the column of each sensor of K is  *)
(* the same in both results.                                               *)
(***************************************************************************)
\* the subsets K of the names of the roster that keep a sensor
KeptSubsets(roster) == SUBSET NamesOf(roster) \ {{}}

\* the outcome of read_columns with K kept agrees with the outcome d of the
\* decoder that keeps every sensor
ProjectionOf(d, roster, K, criteria, stream, repair) ==
    \E ub \in {"lost", "crash"} :
        LET sk == ApplyFilters(roster, K, criteria)
            rK == read_columns(sk, stream, repair, ub)
        IN  /\ rK.crashed = (d.pc = "crashed")
            /\ d.pc = "done" =>
                  /\ rK.n_records = d.nRows
                  /\ \A k \in 1..Len(sk) :
                        sk[k].keep =>
                            rK.columns[sk[k].index + 1] = d.columns[k]

C34_KeepIsProjection ==
    (args.fn = "read_steps" /\ dec.pc \in {"done", "crashed"}) =>
        \A K \in KeptSubsets(StepRoster) :
            ProjectionOf(dec, StepRoster, K, {}, files[1].stream, qRepair)

====
